---- MODULE Spec2Model ----
(***************************************************************************)
(* Model of the trackevent extraction-and-relevance pipeline:              *)
(*   - the batch scheduler  _extract_all_events_parallel                   *)
(*     (src/src/luma_scrape_agent.py),                                     *)
(*   - the scoring / filter / rank / cap part of                           *)
(*     scrape_luma_events_with_agent (src/src/luma_scrape_agent.py,        *)
(*     src/src/filtering.py),                                              *)
(*   - the app_mention handler of the Slack bot (src/slack_bot.py).        *)
(*                                                                         *)
(* Texts are sequences of one-character strings, so that lower(), strip()  *)
(* and the substring test are computed, not assumed.  Relevance scores are *)
(* kept in tenths (0.5 is 5, 1.0 is 10); datetimes are minute numbers.     *)
(***************************************************************************)
EXTENDS Integers, Sequences, FiniteSets, TLC

VARIABLES
    \* ---- _extract_all_events_parallel ----
    urls,            \* the input list of URLs
    i,               \* start index (0-based) of the current batch
    tasks,           \* the tasks of the batch being gathered
    inflight,        \* positions (1-based) of the URLs whose extraction task
                     \* has been created and has neither ended nor been cancelled
    all_results,     \* the output list built so far
    finished,        \* position -> record returned by _extract_event_details
    ended,           \* position -> how the fetch and the extraction call ended
    spc,             \* position of the scheduler: "loop", "gather", "returned"
    \* ---- scrape_luma_events_with_agent ----
    extracted_list,  \* what _run_full_pipeline returned
    responses,       \* how the classification call ended for each record
    relevance_list,  \* what _check_relevance_all returned
    region,          \* the region argument
    sf_terms,        \* the sf_terms argument
    now,             \* datetime.now() taken by the run
    fates,           \* what the loop did with each record
    matched,         \* the list `events` when the loop ends
    events,          \* the list `events` after the sort and the cap
    ret,             \* the value the function returned (None is <<>>)
    ppc,             \* position of the run: "start", "checked", "returned"
                     \* or "raised";
                     \* then of main.py: "exported", "failed"
    written,         \* the rows export_events wrote (None is <<>>)
    \* ---- slack_bot.handle_mention ----
    is_scraping,     \* the global in-progress flag
    hpc,             \* per mention: position of its handler
    worker,          \* per mention: state of its run_scraper worker thread
    started,         \* per mention: number of runs it has started
    \* ---- _run_agent_sdk ----
    listing,         \* the document the listing site serves
    max_events,      \* the max_events argument
    dpc,             \* position of the discovery
    page_idx,        \* number of the page of pages_to_try being loaded (0 outside the loop)
    html,            \* the variable html (None is <<>>)
    render,          \* how rendering went: "none", "ok", "unavailable" (no
                     \* Playwright), "launch_error", "all_failed" (no page
                     \* gave a text and the retry raised), "close_error"
    http_tried,      \* the plain HTTP fetch has been attempted
    added,           \* the URLs in the order the passes added them to all_urls
    all_urls,        \* the set all_urls
    event_urls,      \* the list the discovery returned
    \* ---- score_relevance ----
    sc_keywords,     \* the keyword profile (a set of str)
    sc_events,       \* the Event objects being scored
    sc_log           \* one entry per call of score_relevance: the event's
                     \* index, the iteration order of the set in that call,
                     \* and the score and matched_keywords it stored

schedVars == <<urls, i, tasks, inflight, all_results, finished, ended, spc>>
pipeVars  == <<extracted_list, responses, relevance_list, region, sf_terms, now,
               fates, matched, events, ret, ppc, written>>
botVars   == <<is_scraping, hpc, worker, started>>
discVars  == <<listing, max_events, dpc, page_idx, html, render, http_tried,
               added, all_urls, event_urls>>
scoreVars == <<sc_keywords, sc_events, sc_log>>
vars      == <<urls, i, tasks, inflight, all_results, finished, ended, spc,
               extracted_list, responses, relevance_list, region, sf_terms, now,
               fates, matched, events, ret, ppc, written,
               is_scraping, hpc, worker, started,
               listing, max_events, dpc, page_idx, html, render, http_tried,
               added, all_urls, event_urls,
               sc_keywords, sc_events, sc_log>>

-----------------------------------------------------------------------------
(* Bounds of the model *)

\* longest input list of the scheduler
MaxUrls == 3

\* longest list of records of a run with the full variety of records
MaxRecs == 1

\* longest list of records of a run of the ranking stage
MaxRankRecs == 9

\* period of the pattern of records of a run of the ranking stage
PatternLen == 4

\* number of app_mention events
MaxMentions == 3

\* number of Event objects handed to the heuristic scorer
MaxScored == 2

\* number of calls of the heuristic scorer
MaxCalls == 3

-----------------------------------------------------------------------------
(* Python values *)

\* dict.update(other): keys of `other` override, all other keys are kept
DictUpdate(d, other) ==
    [k \in (DOMAIN d) \cup (DOMAIN other) |->
        IF k \in DOMAIN other THEN other[k] ELSE d[k]]

\* a faulty variant that keeps the value a key already has (dict.setdefault)
DictSetKeepsExisting(d, key, value) ==
    [k \in (DOMAIN d) \cup {key} |-> IF k \in DOMAIN d THEN d[k] ELSE value]

\* d with d[key] = value assigned
DictSet(d, key, value) ==
    [k \in (DOMAIN d) \cup {key} |-> IF k = key THEN value ELSE d[k]]

-----------------------------------------------------------------------------
(* Texts *)

UpperChars == <<"A","B","C","D","E","F","G","H","I","J","K","L","M",
                "N","O","P","Q","R","S","T","U","V","W","X","Y","Z">>
LowerChars == <<"a","b","c","d","e","f","g","h","i","j","k","l","m",
                "n","o","p","q","r","s","t","u","v","w","x","y","z">>

UpperSet == {UpperChars[k] : k \in 1..Len(UpperChars)}
LowerOf == [c \in UpperSet |-> LowerChars[CHOOSE k \in 1..Len(UpperChars) : UpperChars[k] = c]]

LowerChar(c) == IF c \in UpperSet THEN LowerOf[c] ELSE c

\* str.lower()
StrLower(s) == [k \in 1..Len(s) |-> LowerChar(s[k])]

\* `sub in s`
StrContains(sub, s) ==
    \E k \in 0..(Len(s) - Len(sub)) : SubSeq(s, k + 1, k + Len(sub)) = sub

IsSpace(c) == c \in {" ", "\t", "\n"}

\* str.strip()
StrStrip(s) ==
    LET keep == {k \in 1..Len(s) : ~IsSpace(s[k])}
    IN  IF keep = {} THEN <<>>
        ELSE LET lo == CHOOSE k \in keep : \A m \in keep : k <= m
                 hi == CHOOSE k \in keep : \A m \in keep : m <= k
             IN  SubSeq(s, lo, hi)

-----------------------------------------------------------------------------
(* _extract_json_from_text                                                 *)
(* A response text is described by what the two regular expressions find   *)
(* in it: `fenced` is the outcome of json.loads on the first fenced block, *)
(* `bare` the outcome on the text from the first "{" to the last "}".      *)
(* Each is "nomatch", "badjson" or [obj |-> the decoded dict].             *)

NoMatch == [k |-> "nomatch"]
BadJson == [k |-> "badjson"]
Json(obj) == [k |-> "json", obj |-> obj]

Text(fenced, bare) == [fenced |-> fenced, bare |-> bare]

ExtractJsonFromText(text) ==
    IF text.fenced.k = "json" THEN text.fenced
    ELSE IF text.bare.k = "json" THEN text.bare
    ELSE [k |-> "none"]

\* truth value of `parsed` in `if parsed:` (None and the empty dict are false)
Truthy(parsed) == parsed.k = "json" /\ DOMAIN parsed.obj # {}

-----------------------------------------------------------------------------
(* _extract_event_details *)

\* the record the function starts from, and the stub the scheduler substitutes
StubRecord(url) ==
    [url |-> url, title |-> <<>>, date_text |-> <<>>, venue_text |-> <<>>,
     organizer_text |-> <<>>, description_text |-> <<>>]

\* a faulty variant that puts the raw answer into the description when no
\* JSON object can be parsed from it
ExtractEventDetailsKeepsRawText(url, o) ==
    IF o.kind = "text" /\ Truthy(ExtractJsonFromText(o.text))
    THEN DictSet(DictUpdate(StubRecord(url), ExtractJsonFromText(o.text).obj),
                 "url", url)
    ELSE IF o.kind = "text"
         THEN DictSet(StubRecord(url), "description_text", <<"r", "a", "w">>)
         ELSE StubRecord(url)

\* The value returned for `url` when the page fetch and the extraction call
\* end as described by o:
\*   "neterr"      client.get raises (connection error, httpx timeout)
\*   "timeout"     asyncio.TimeoutError is raised inside the try block
\*   "http_error"  raise_for_status raises
\*   "api_raise"   anthropic_client.messages.create raises
\*   "text"        the call returns o.text
ExtractEventDetails(url, o) ==
    IF o.kind = "text" /\ Truthy(ExtractJsonFromText(o.text))
    THEN DictSet(DictUpdate(StubRecord(url), ExtractJsonFromText(o.text).obj),
                 "url", url)
    ELSE StubRecord(url)

\* The texts of the inputs of the model: titles, dates, venues, organizers,
\* descriptions and URLs as the pages and the extraction calls deliver them.
In ==
    [ai |-> <<"A", "I">>,
     blank |-> <<" ">>,
     online_cap |-> <<"O", "n", "l", "i", "n", "e">>,
     host |-> <<"h", "q">>,
     other_url |-> <<"h", "t", "t", "p", "s", ":", "/", "/", "l", "u", ".", "m", "a", "/", "o", "t", "h", "e", "r">>,
     url_a |-> <<"h", "t", "t", "p", "s", ":", "/", "/", "l", "u", ".", "m", "a", "/", "e", "v", "t", "-", "a", "1">>,
     url_b |-> <<"h", "t", "t", "p", "s", ":", "/", "/", "l", "u", ".", "m", "a", "/", "X", "y", "1", "2", "a", "b">>,
     tbd |-> <<"t", "b", "d">>,
     day_now |-> <<"1", "1", "/", "1", "0", " ", "0", "9", ":", "3", "0">>,
     day10 |-> <<"o", "n", " ", " ", "1", "1", "/", "1", "0">>,
     day12 |-> <<"1", "1", "/", "1", "2">>,
     day12utc |-> <<"1", "1", "/", "1", "2", " ", "1", "0", ":", "0", "0", " ", "U", "T", "C">>,
     day24 |-> <<"1", "1", "/", "2", "4", " ", "0", "9", ":", "3", "0">>,
     day25 |-> <<"1", "1", "/", "2", "5">>,
     desc_date |-> <<"A", "I", " ", "1", "1", "/", "1", "2">>,
     online_upper |-> <<"O", "N", "L", "I", "N", "E">>,
     virtual |-> <<"V", "i", "r", "t", "u", "a", "l">>,
     oakland |-> <<"O", "a", "k", "l", "a", "n", "d">>,
     oslo |-> <<"O", "s", "l", "o">>,
     pii_title |-> <<"P", "I", "I", " ", "S", "a", "f", "e", "t", "y">>,
     agent_title |-> <<"A", "g", "e", "n", "t">>,
     ops_desc |-> <<"o", "p", "s", " ", "p", "i", "i">>,
     safety |-> <<"s", "a", "f", "e", "t", "y">>]

\* dicts the extraction call may answer with
FullDetails ==
    [title |-> In.ai, date_text |-> <<>>, venue_text |-> In.online_cap,
     organizer_text |-> In.host, description_text |-> In.ai]
TitleOnly == [title |-> In.ai]
WithUrlAndExtra == [title |-> In.ai, url |-> In.other_url, note |-> In.ai]

\* how one item's extraction can end
ExtractOutcomes ==
    {[kind |-> "neterr"], [kind |-> "http_error"], [kind |-> "timeout"],
     [kind |-> "api_raise"],
     [kind |-> "text", text |-> Text(NoMatch, NoMatch)],
     [kind |-> "text", text |-> Text(NoMatch, BadJson)],
     [kind |-> "text", text |-> Text(NoMatch, Json([k \in {} |-> <<>>]))],
     [kind |-> "text", text |-> Text(NoMatch, Json(TitleOnly))],
     [kind |-> "text", text |-> Text(Json(FullDetails), Json(FullDetails))],
     [kind |-> "text", text |-> Text(BadJson, Json(WithUrlAndExtra))]}

-----------------------------------------------------------------------------
(* _extract_all_events_parallel(urls, batch_size=2, timeout_per_batch=90) *)

BatchSize == 2

\* the k-th URL of a deduplicated discovery result
RunUrl(k) == <<"h", "t", "t", "p", "s", ":", "/", "/", "l", "u", ".", "m", "a", "/", "e", "v", "t", "-">> \o <<<<"1", "2", "3", "4", "5", "6", "7", "8", "9", "a", "b", "c">>[k]>>

\* the URLs discovery hands to the scheduler: list(all_urls)[:max_events] is
\* the list of a set, so no URL occurs twice
Urls == <<In.url_a, In.url_b, RunUrl(3), RunUrl(4), RunUrl(5)>>

SeqsUpTo(S, n) == UNION {[1..m -> S] : m \in 0..n}

\* a task is "pending" while it awaits the page fetch, "calling" while it is
\* inside the synchronous messages.create call (which does not yield to the
\* event loop), "closing" while it awaits the exit of "async with
\* httpx.AsyncClient(...)" (the value it is going to return is settled),
\* then "done" or "exc"
Pending == [st |-> "pending"]
Calling == [st |-> "calling"]
Closing(r) == [st |-> "closing", res |-> r]
Done(r) == [st |-> "done", res |-> r]
Raised  == [st |-> "exc"]

\* batch = urls[i:i + batch_size]
Batch == SubSeq(urls, i + 1, IF i + BatchSize <= Len(urls) THEN i + BatchSize ELSE Len(urls))

\* a faulty variant that skips a failed item instead of appending a stub for it
ProcessResultsSkipsFailures(batch, results) ==
    LET ok == SelectSeq([k \in 1..Len(batch) |-> k], LAMBDA k : results[k].st # "exc")
    IN  [p \in 1..Len(ok) |-> results[ok[p]].res]

\* the loop "for url, result in zip(batch, results)"
ProcessResults(batch, results) ==
    [k \in 1..(IF Len(batch) <= Len(results) THEN Len(batch) ELSE Len(results)) |->
        IF results[k].st = "exc" THEN StubRecord(batch[k]) ELSE results[k].res]

\* the except branch: one stub per url of the batch
TimedOutResults(batch) == [k \in 1..Len(batch) |-> Done(StubRecord(batch[k]))]

\* the event loop can run a callback: no task is inside a synchronous call
LoopFree == \A k \in 1..Len(tasks) : tasks[k].st # "calling"

\* the outcomes in which the page fetch fails: the extraction call is not made
FetchFailures == {"neterr", "http_error", "timeout"}

SchedStart ==
    /\ urls \in {SubSeq(Urls, 1, n) : n \in 0..MaxUrls}
    /\ i = 0
    /\ tasks = <<>>
    /\ inflight = {}
    /\ all_results = <<>>
    /\ finished = <<>>
    /\ ended = <<>>
    /\ spc = "loop"

\* the loop takes the next batch and creates its tasks
StartBatch ==
    /\ spc = "loop"
    /\ i < Len(urls)
    /\ tasks' = [k \in 1..Len(Batch) |-> Pending]
    /\ inflight' = inflight \cup {i + k : k \in 1..Len(Batch)}
    /\ spc' = "gather"
    /\ UNCHANGED <<urls, i, all_results, finished, ended>>

\* the page of the k-th item has arrived: its task parses it and enters
\* anthropic_client.messages.create, a blocking call
ItemCalls(k) ==
    /\ spc = "gather"
    /\ k \in 1..Len(tasks)
    /\ tasks[k].st = "pending"
    /\ LoopFree
    /\ tasks' = [tasks EXCEPT ![k] = Calling]
    /\ UNCHANGED <<urls, i, inflight, all_results, finished, ended, spc>>

\* a faulty variant without the except branches of lines 517-520: the
\* exception of the fetch leaves _extract_event_details and ends the task
ItemFetchFailsUncaught(k) ==
    /\ spc = "gather"
    /\ k \in 1..Len(tasks)
    /\ tasks[k].st = "pending"
    /\ LoopFree
    /\ \E o \in ExtractOutcomes :
          /\ o.kind \in FetchFailures
          /\ tasks' = [tasks EXCEPT ![k] = Raised]
          /\ ended' = [p \in (DOMAIN ended) \cup {i + k} |->
                          IF p = i + k THEN o ELSE ended[p]]
    /\ inflight' = inflight \ {i + k}
    /\ UNCHANGED <<urls, i, all_results, finished, spc>>

\* client.get or raise_for_status raises in the task of the k-th item: the
\* exception leaves the "async with" block, whose exit awaits the closing of
\* the client, and is caught after it
ItemFetchFails(k) ==
    /\ spc = "gather"
    /\ k \in 1..Len(tasks)
    /\ tasks[k].st = "pending"
    /\ LoopFree
    /\ \E o \in ExtractOutcomes :
          /\ o.kind \in FetchFailures
          /\ tasks' = [tasks EXCEPT ![k] = Closing(ExtractEventDetails(Batch[k], o))]
          /\ ended' = [p \in (DOMAIN ended) \cup {i + k} |->
                          IF p = i + k THEN o ELSE ended[p]]
    /\ UNCHANGED <<urls, i, inflight, all_results, finished, spc>>

\* messages.create returns or raises in the task of the k-th item: the task
\* updates its record (lines 506-510) and awaits the exit of "async with"
ItemCallEnds(k) ==
    /\ spc = "gather"
    /\ k \in 1..Len(tasks)
    /\ tasks[k].st = "calling"
    /\ \E o \in ExtractOutcomes :
          /\ o.kind \notin FetchFailures
          /\ tasks' = [tasks EXCEPT ![k] = Closing(ExtractEventDetails(Batch[k], o))]
          /\ ended' = [p \in (DOMAIN ended) \cup {i + k} |->
                          IF p = i + k THEN o ELSE ended[p]]
    /\ UNCHANGED <<urls, i, inflight, all_results, finished, spc>>

\* the client of the k-th item is closed: the task returns its record
\* (line 522)
ItemReturns(k) ==
    /\ spc = "gather"
    /\ k \in 1..Len(tasks)
    /\ tasks[k].st = "closing"
    /\ LoopFree
    /\ tasks' = [tasks EXCEPT ![k] = Done(tasks[k].res)]
    /\ inflight' = inflight \ {i + k}
    /\ finished' = [p \in (DOMAIN finished) \cup {i + k} |->
                       IF p = i + k THEN tasks[k].res ELSE finished[p]]
    /\ UNCHANGED <<urls, i, all_results, ended, spc>>

\* the task of the k-th item ends with an exception raised outside the try
\* block of _extract_event_details (by its tracing decorator); gather, called
\* with return_exceptions=True, returns the exception as the item's result
ItemRaises(k) ==
    /\ spc = "gather"
    /\ k \in 1..Len(tasks)
    /\ tasks[k].st = "pending"
    /\ LoopFree
    /\ tasks' = [tasks EXCEPT ![k] = Raised]
    /\ inflight' = inflight \ {i + k}
    /\ UNCHANGED <<urls, i, all_results, finished, ended, spc>>

\* every task has ended: gather returns, the results are appended
GatherDone ==
    /\ spc = "gather"
    /\ \A k \in 1..Len(tasks) : tasks[k].st \in {"done", "exc"}
    /\ all_results' = all_results \o ProcessResults(Batch, tasks)
    /\ i' = i + BatchSize
    /\ tasks' = <<>>
    /\ spc' = "loop"
    /\ UNCHANGED <<urls, inflight, finished, ended>>

\* a faulty variant whose timeout abandons the batch without cancelling its
\* tasks
BatchTimeoutNoCancel ==
    /\ spc = "gather"
    /\ LoopFree
    /\ all_results' = all_results \o ProcessResults(Batch, TimedOutResults(Batch))
    /\ i' = i + BatchSize
    /\ tasks' = <<>>
    /\ spc' = "loop"
    /\ UNCHANGED <<urls, inflight, finished, ended>>

\* wait_for's timeout fires before process_batch has resumed with the
\* results of gather: the timer's callback needs the event loop, so it may
\* run after tasks have returned, also after all of them.  wait_for cancels
\* process_batch and with it gather, which cancels the tasks still awaiting,
\* and waits for them to end; the results of the tasks that returned are
\* dropped.
BatchTimeout ==
    /\ spc = "gather"
    /\ LoopFree
    /\ all_results' = all_results \o ProcessResults(Batch, TimedOutResults(Batch))
    /\ i' = i + BatchSize
    /\ tasks' = <<>>
    /\ inflight' = inflight \ {i + k : k \in 1..Len(Batch)}
    /\ spc' = "loop"
    /\ UNCHANGED <<urls, finished, ended>>

\* the loop is over: return all_results
SchedReturn ==
    /\ spc = "loop"
    /\ i >= Len(urls)
    /\ spc' = "returned"
    /\ UNCHANGED <<urls, i, tasks, inflight, all_results, finished, ended>>

-----------------------------------------------------------------------------
(* Optional values: None is the empty tuple, a value x is <<x>> *)

NoneVal == <<>>
Some(x) == <<x>>
IsNone(o) == o = <<>>
ValueOf(o) == o[1]

\* dict.get(key, default)
DictGet(d, key, default) == IF key \in DOMAIN d THEN d[key] ELSE default

-----------------------------------------------------------------------------
(* src/src/filtering.py *)

\* An instant is a number of minutes counted from the start of the month:
\* minute m of day d.
MinutesPerDay == 1440
Instant(d, m) == d * MinutesPerDay + m

\* datetime.now() of the run: day 10 of the month, at 09:30
NowDay == 10
NowMinute == 570
Now == Instant(NowDay, NowMinute)

\* SETTINGS.days_ahead
DaysAhead == 14

\* re.sub(r"\s+", " ", s): every run of whitespace becomes one blank
RECURSIVE CollapseSpaces(_)
CollapseSpaces(s) ==
    IF s = <<>> THEN <<>>
    ELSE IF IsSpace(Head(s))
         THEN IF Len(s) > 1 /\ IsSpace(s[2])
              THEN CollapseSpaces(Tail(s))
              ELSE <<" ">> \o CollapseSpaces(Tail(s))
         ELSE <<Head(s)>> \o CollapseSpaces(Tail(s))

\* A datetime is <<t>> when it is naive and <<t, "UTC">> when it carries a
\* tzinfo, t being its instant; ValueOf gives the instant in both cases.
IsAware(dt) == Len(dt) = 2

\* The dates dateutil recognises in the texts of this model, with their
\* instants; any other text makes date_parser.parse raise.  A date without a
\* time is midnight of its day.  A zone name is taken only after a time of
\* day: "11/12 10:00 UTC" is parsed with tzinfo=tzutc(), "11/12 UTC" is the
\* naive midnight of 11/12.
KnownDates ==
    << <<<<"1", "1", "/", "1", "2", " ", "1", "0", ":", "0", "0", " ", "U", "T", "C">>,
         <<Instant(12, 600), "UTC">> >>,
       <<<<"1", "1", "/", "1", "0", " ", "0", "9", ":", "3", "0">>, <<Instant(10, 570)>> >>,
       <<<<"1", "1", "/", "2", "4", " ", "0", "9", ":", "3", "0">>, <<Instant(24, 570)>> >>,
       <<<<"1", "1", "/", "0", "9">>, <<Instant(9, 0)>> >>,
       <<<<"1", "1", "/", "1", "0">>, <<Instant(10, 0)>> >>,
       <<<<"1", "1", "/", "1", "2">>, <<Instant(12, 0)>> >>,
       <<<<"1", "1", "/", "2", "4">>, <<Instant(24, 0)>> >>,
       <<<<"1", "1", "/", "2", "5">>, <<Instant(25, 0)>> >> >>

\* date_parser.parse(s, fuzzy=True): the first known date found in s; the
\* value is returned as parsed, tzinfo included
DateutilParse(s) ==
    LET found == {k \in 1..Len(KnownDates) : StrContains(KnownDates[k][1], s)}
    IN  IF found = {} THEN NoneVal
        ELSE KnownDates[CHOOSE k \in found : \A m \in found : k <= m][2]

ParseDatetimeLoose(s) ==
    IF s = <<>> THEN NoneVal
    ELSE DateutilParse(StrStrip(CollapseSpaces(s)))

\* a faulty variant with the lower bound of the window dropped
IsWithinDaysNoLowerBound(start_at, days, nowv) ==
    IF IsNone(start_at) THEN FALSE
    ELSE ValueOf(start_at) <= nowv + days * MinutesPerDay

\* "now <= start_at <= end" with a naive `now` (line 699 strips its tzinfo)
\* and an aware start_at: Python raises TypeError ("can't compare
\* offset-naive and offset-aware datetimes")
IsWithinDaysRaises(start_at) == ~IsNone(start_at) /\ IsAware(start_at)

\* is_within_days(start_at, days=days, now=now), when it does not raise
IsWithinDays(start_at, days, nowv) ==
    IF IsNone(start_at) THEN FALSE
    ELSE nowv <= ValueOf(start_at) /\ ValueOf(start_at) <= nowv + days * MinutesPerDay

TxtOnlineMarker  == <<"o", "n", "l", "i", "n", "e">>
TxtVirtualMarker == <<"v", "i", "r", "t", "u", "a", "l">>

\* a faulty variant that forgets to lower-case the text
LooksLikeSfBayCaseSensitive(text, terms) ==
    \/ StrContains(TxtOnlineMarker, text)
    \/ StrContains(TxtVirtualMarker, text)
    \/ \E k \in 1..Len(terms) : StrContains(terms[k], text)

\* looks_like_sf_bay(text, sf_terms)
LooksLikeSfBay(text, terms) ==
    LET t == StrLower(text)
    IN  \/ StrContains(TxtOnlineMarker, t)
        \/ StrContains(TxtVirtualMarker, t)
        \/ \E k \in 1..Len(terms) : StrContains(terms[k], t)

\* SETTINGS.sf_bay_terms
SfBayTerms ==
    << <<"s", "a", "n", " ", "f", "r", "a", "n", "c", "i", "s", "c", "o">>,
       <<"s", "f">>,
       <<"b", "a", "y", " ", "a", "r", "e", "a">>,
       <<"o", "a", "k", "l", "a", "n", "d">>,
       <<"b", "e", "r", "k", "e", "l", "e", "y">>,
       <<"s", "a", "n", " ", "j", "o", "s", "e">>,
       <<"p", "a", "l", "o", " ", "a", "l", "t", "o">>,
       <<"m", "o", "u", "n", "t", "a", "i", "n", " ", "v", "i", "e", "w">>,
       <<"r", "e", "d", "w", "o", "o", "d", " ", "c", "i", "t", "y">>,
       <<"m", "e", "n", "l", "o", " ", "p", "a", "r", "k">>,
       <<"s", "a", "n", "t", "a", " ", "c", "l", "a", "r", "a">>,
       <<"s", "u", "n", "n", "y", "v", "a", "l", "e">>,
       <<"f", "r", "e", "m", "o", "n", "t">>,
       <<"s", "o", "u", "t", "h", " ", "s", "a", "n", " ", "f", "r", "a", "n", "c", "i", "s", "c", "o">> >>

-----------------------------------------------------------------------------
(* _check_relevance_with_claude *)

\* a faulty variant whose default verdict lets the event through
CheckRelevanceFailOpen(event, o) ==
    LET result == [is_relevant |-> TRUE, relevance_score |-> 10,
                   reason |-> <<>>, matched_topics |-> <<>>]
    IN  IF o.kind = "text" /\ Truthy(ExtractJsonFromText(o.text))
        THEN DictUpdate(result, ExtractJsonFromText(o.text).obj)
        ELSE result

\* The verdict for `event` when the classification call ends as o says:
\* "api_raise" (messages.create raises) or "text" (it returns o.text).
CheckRelevanceWithClaude(event, o) ==
    LET result == [is_relevant |-> FALSE, relevance_score |-> 0,
                   reason |-> <<>>, matched_topics |-> <<>>]
    IN  IF o.kind = "text" /\ Truthy(ExtractJsonFromText(o.text))
        THEN DictUpdate(result, ExtractJsonFromText(o.text).obj)
        ELSE result

\* _check_relevance_all: one call per record, in order
CheckRelevanceAll(evs, outcomes) ==
    [k \in 1..Len(evs) |-> CheckRelevanceWithClaude(evs[k], outcomes[k])]

-----------------------------------------------------------------------------
(* scrape_luma_events_with_agent: the loop over zip(extracted_list,        *)
(* relevance_list), the sort and the cap                                   *)

RelevanceThreshold == 5
MaxEventsToReturn == 7
DatetimeMax == 9999999

\* Scores are numbers in tenths.  A JSON string in the place of the number
\* ("relevance_score": "high") is written StrScore; no formula of the code
\* treats it as a number.
StrScore == 0 - 1000
IsNumber(v) == v # StrScore

\* f"...score={rel_score:.2f}" (line 736) raises ValueError when rel_score is
\* a string
FormatScoreRaises(rel_score) == ~IsNumber(rel_score)

\* a faulty variant with the earlier, lower threshold and no look at is_relevant
PassesRelevanceLax(is_relevant, rel_score) == rel_score >= 3

\* the negation of "not is_relevant or rel_score < 0.5"
PassesRelevance(is_relevant, rel_score) ==
    ~(~is_relevant \/ rel_score < RelevanceThreshold)

\* a faulty variant that applies the window to an unparsed date too
DateFilterDropsUnparsed(dt, days, nowv) == ~IsWithinDays(dt, days, nowv)

\* "dt is not None and not is_within_days(dt, days=days, now=now)"
DateFilterDrops(dt, days, nowv) == ~IsNone(dt) /\ ~IsWithinDays(dt, days, nowv)

\* 'region == "sf_bay" and not looks_like_sf_bay(venue_raw, sf_terms)'
GeoFilterDrops(reg, venue_raw, terms) ==
    reg = "sf_bay" /\ ~LooksLikeSfBay(venue_raw, terms)

\* "x or None" for a text
OrNone(text) == IF text = <<>> THEN NoneVal ELSE Some(text)

\* the first n items of s (s[:n])
Prefix(s, n) == SubSeq(s, 1, IF n <= Len(s) THEN n ELSE Len(s))

\* the date of one record: date_text first, then the head of the description
EventDate(extracted) ==
    LET dt1 == IF extracted.date_text # <<>>
               THEN ParseDatetimeLoose(extracted.date_text) ELSE NoneVal
    IN  IF IsNone(dt1) /\ extracted.description_text # <<>>
        THEN ParseDatetimeLoose(Prefix(extracted.description_text, 200))
        ELSE dt1

\* a faulty variant without the fall-back of the title to the URL
MakeEventNoTitleFallback(extracted, relevance) ==
    LET venue_raw == extracted.venue_text
    IN  [url |-> extracted.url,
         title |-> StrStrip(extracted.title),
         start_at |-> EventDate(extracted),
         venue |-> [raw |-> venue_raw,
                    is_online |-> \/ StrContains(TxtOnlineMarker, StrLower(venue_raw))
                                  \/ StrContains(TxtVirtualMarker, StrLower(venue_raw))],
         organizer |-> OrNone(StrStrip(extracted.organizer_text)),
         description |-> OrNone(StrStrip(extracted.description_text)),
         tags |-> DictGet(relevance, "matched_topics", <<>>),
         relevance_reason |-> DictGet(relevance, "reason", <<>>),
         relevance_score |-> DictGet(relevance, "relevance_score", 0),
         matched_keywords |-> DictGet(relevance, "matched_topics", <<>>)]

\* Event(url=..., title=title or url, ...)
MakeEvent(extracted, relevance) ==
    LET title == StrStrip(extracted.title)
        venue_raw == extracted.venue_text
    IN  [url |-> extracted.url,
         title |-> IF title # <<>> THEN title ELSE extracted.url,
         start_at |-> EventDate(extracted),
         venue |-> [raw |-> venue_raw,
                    is_online |-> \/ StrContains(TxtOnlineMarker, StrLower(venue_raw))
                                  \/ StrContains(TxtVirtualMarker, StrLower(venue_raw))],
         organizer |-> OrNone(StrStrip(extracted.organizer_text)),
         description |-> OrNone(StrStrip(extracted.description_text)),
         tags |-> DictGet(relevance, "matched_topics", <<>>),
         relevance_reason |-> DictGet(relevance, "reason", <<>>),
         relevance_score |-> DictGet(relevance, "relevance_score", 0),
         matched_keywords |-> DictGet(relevance, "matched_topics", <<>>)]

\* a faulty variant without the test for a missing title and description
FateNoStubSkip(extracted, relevance, reg, terms, days, nowv) ==
    IF extracted.url = <<>> THEN "nourl"
    ELSE IF FormatScoreRaises(DictGet(relevance, "relevance_score", 0)) THEN "raise"
    ELSE IF ~PassesRelevance(DictGet(relevance, "is_relevant", FALSE),
                             DictGet(relevance, "relevance_score", 0))
         THEN "relevance"
    ELSE IF IsWithinDaysRaises(EventDate(extracted)) THEN "raise"
    ELSE IF DateFilterDrops(EventDate(extracted), days, nowv) THEN "date"
    ELSE IF GeoFilterDrops(reg, extracted.venue_text, terms) THEN "geo"
    ELSE "kept"

\* What one iteration of the loop does with a record and its verdict:
\* "nourl", "stub" (no title and no description), "relevance", "date", "geo"
\* (the three filters), "kept" (events.append(ev)) or "raise" (an exception
\* leaves the loop: the debug print of the score, or the date comparison).
Fate(extracted, relevance, reg, terms, days, nowv) ==
    IF extracted.url = <<>> THEN "nourl"
    ELSE IF StrStrip(extracted.title) = <<>>
            /\ StrStrip(extracted.description_text) = <<>> THEN "stub"
    ELSE IF FormatScoreRaises(DictGet(relevance, "relevance_score", 0)) THEN "raise"
    ELSE IF ~PassesRelevance(DictGet(relevance, "is_relevant", FALSE),
                             DictGet(relevance, "relevance_score", 0))
         THEN "relevance"
    ELSE IF IsWithinDaysRaises(EventDate(extracted)) THEN "raise"
    ELSE IF DateFilterDrops(EventDate(extracted), days, nowv) THEN "date"
    ELSE IF GeoFilterDrops(reg, extracted.venue_text, terms) THEN "geo"
    ELSE "kept"

\* the fates of the records the loop reaches, in its order: nothing follows
\* an iteration that raises
Fates(exts, rels, reg, terms, days, nowv) ==
    LET n == IF Len(exts) <= Len(rels) THEN Len(exts) ELSE Len(rels)
        all == [k \in 1..n |-> Fate(exts[k], rels[k], reg, terms, days, nowv)]
        bad == {k \in 1..n : all[k] = "raise"}
    IN  IF bad = {} THEN all
        ELSE SubSeq(all, 1, CHOOSE k \in bad : \A m \in bad : k <= m)

\* the loop was left by an exception
LoopRaised(fs) == fs # <<>> /\ fs[Len(fs)] = "raise"

\* the list `events` when the loop ends: the events of the records the loop
\* kept, in the order of the loop
Matched(exts, rels, fs) ==
    LET kept == SelectSeq([k \in 1..Len(fs) |-> k], LAMBDA k : fs[k] = "kept")
    IN  [p \in 1..Len(kept) |-> MakeEvent(exts[kept[p]], rels[kept[p]])]

\* the second component of the sort key: e.start_at or datetime.max
StartKey(e) == IF IsNone(e.start_at) THEN DatetimeMax ELSE ValueOf(e.start_at)

\* a faulty variant that sorts by ascending score
KeyLessAscendingScore(a, b) ==
    \/ a.relevance_score < b.relevance_score
    \/ a.relevance_score = b.relevance_score /\ StartKey(a) < StartKey(b)

\* key(a) < key(b) for key = (-e.relevance_score, e.start_at or datetime.max)
KeyLess(a, b) ==
    \/ 0 - a.relevance_score < 0 - b.relevance_score
    \/ a.relevance_score = b.relevance_score /\ StartKey(a) < StartKey(b)

\* events.sort(key=...): a stable sort.  The item at index k goes behind
\* every item with a smaller key and every earlier item with an equal key.
SortEvents(s) ==
    LET n == Len(s)
        Before(j, k) == KeyLess(s[j], s[k]) \/ (~KeyLess(s[k], s[j]) /\ j < k)
        pos == [k \in 1..n |-> 1 + Cardinality({j \in 1..n : j # k /\ Before(j, k)})]
    IN  [p \in 1..n |-> s[CHOOSE k \in 1..n : pos[k] = p]]

\* a faulty variant that never truncates
LimitEventsNoCap(s) == s

\* "if len(events) > max_events_to_return: events = events[:max_events_to_return]"
LimitEvents(s) ==
    IF Len(s) > MaxEventsToReturn THEN SubSeq(s, 1, MaxEventsToReturn) ELSE s

-----------------------------------------------------------------------------
(* The inputs of a run *)


RecordDates  == {In.tbd, In.day_now, In.day10, In.day24, In.day25, In.day12utc}
RecordVenues == {In.online_upper, In.virtual, In.oakland, In.oslo}

\* The records _extract_all_events_parallel can return for `url`: the stub,
\* titled records with every date and venue, records with a blank title
\* whose description carries the date, and a record with a venue but neither
\* title nor description.
RecordsFor(url) ==
    {StubRecord(url)} \cup
    {[url |-> url, title |-> In.ai, date_text |-> d, venue_text |-> v,
      organizer_text |-> In.host, description_text |-> <<>>] :
        d \in RecordDates, v \in RecordVenues} \cup
    {[url |-> url, title |-> In.blank, date_text |-> d, venue_text |-> In.oakland,
      organizer_text |-> <<>>, description_text |-> In.desc_date] :
        d \in {In.tbd, In.day25}} \cup
    {[url |-> url, title |-> <<>>, date_text |-> In.tbd, venue_text |-> In.oakland,
      organizer_text |-> <<>>, description_text |-> <<>>]}

Verdict(rel, score) == [is_relevant |-> rel, relevance_score |-> score]

\* how one classification call can end
ClassifierOutcomes ==
    {[kind |-> "api_raise"],
     [kind |-> "text", text |-> Text(NoMatch, NoMatch)],
     [kind |-> "text", text |-> Text(NoMatch, BadJson)],
     [kind |-> "text", text |-> Text(Json(Verdict(TRUE, 8)), Json(Verdict(TRUE, 8)))],
     [kind |-> "text", text |-> Text(NoMatch, Json(Verdict(TRUE, 5)))],
     [kind |-> "text", text |-> Text(NoMatch, Json(Verdict(TRUE, 4)))],
     [kind |-> "text", text |-> Text(NoMatch, Json(Verdict(FALSE, 8)))],
     [kind |-> "text", text |-> Text(NoMatch, Json([relevance_score |-> 8]))],
     [kind |-> "text", text |-> Text(BadJson, Json([is_relevant |-> TRUE]))],
     [kind |-> "text", text |-> Text(NoMatch, Json(Verdict(TRUE, 15)))],
     [kind |-> "text", text |-> Text(NoMatch, Json(Verdict(TRUE, StrScore)))]}

\* the sf_terms argument: no terms, the configured terms, capitalised terms
TermChoices == {<<>>, SfBayTerms, << <<"O", "a", "k", "l", "a", "n", "d">> >>}

\* main.py offers only this region, and the bot passes it
Regions == {"sf_bay"}

SchedIdle ==
    /\ urls = <<>> /\ i = 0 /\ tasks = <<>> /\ inflight = {} /\ all_results = <<>>
    /\ finished = <<>> /\ ended = <<>> /\ spc = "returned"

BotIdle ==
    /\ is_scraping = FALSE
    /\ hpc = <<>>
    /\ worker = <<>>
    /\ started = <<>>

PipeIdle ==
    /\ extracted_list = <<>> /\ responses = <<>> /\ relevance_list = <<>>
    /\ region = "sf_bay" /\ sf_terms = <<>> /\ now = Now
    /\ fates = <<>> /\ matched = <<>> /\ events = <<>> /\ ret = NoneVal
    /\ ppc = "returned" /\ written = NoneVal

DiscIdle ==
    /\ listing = <<>> /\ max_events = 1 /\ dpc = "returned" /\ page_idx = 0
    /\ html = NoneVal /\ render = "none" /\ http_tried = FALSE
    /\ added = <<>> /\ all_urls = {} /\ event_urls = <<>>

ScoreIdle ==
    /\ sc_keywords = {} /\ sc_events = <<>> /\ sc_log = <<>>

\* the state when _run_full_pipeline has returned
PipeStart ==
    /\ \E n \in 0..MaxRecs :
          extracted_list \in {l \in [1..n -> UNION {RecordsFor(RunUrl(k)) : k \in 1..n}] :
                                \A k \in 1..n : l[k].url = RunUrl(k)}
    /\ responses = <<>>
    /\ relevance_list = <<>>
    /\ region \in Regions
    /\ sf_terms \in TermChoices
    /\ now = Now
    /\ fates = <<>>
    /\ matched = <<>>
    /\ events = <<>>
    /\ ret = NoneVal
    /\ ppc = "start"
    /\ written = NoneVal

\* relevance_list = _check_relevance_all(extracted_list)
RunCheckRelevanceAll ==
    /\ ppc = "start"
    /\ \E outs \in [1..Len(extracted_list) -> ClassifierOutcomes] :
          /\ responses' = outs
          /\ relevance_list' = CheckRelevanceAll(extracted_list, outs)
    /\ ppc' = "checked"
    /\ UNCHANGED <<extracted_list, region, sf_terms, now, fates, matched, events, ret,
                   written>>

\* the rest of scrape_luma_events_with_agent: the loop, the sort, the cap
\* and the return (which is inside the last "if events:").  An exception in
\* the loop is caught nowhere in the function: the call ends by raising.
FilterRankReturn ==
    /\ ppc = "checked"
    /\ fates' = Fates(extracted_list, relevance_list, region, sf_terms, DaysAhead, now)
    /\ matched' = Matched(extracted_list, relevance_list, fates')
    /\ IF LoopRaised(fates')
       THEN /\ events' = matched'
            /\ ret' = NoneVal
            /\ ppc' = "raised"
       ELSE /\ events' = LimitEvents(SortEvents(matched'))
            /\ ret' = IF events' # <<>> THEN Some(events') ELSE NoneVal
            /\ ppc' = "returned"
    /\ UNCHANGED <<extracted_list, responses, relevance_list, region, sf_terms, now,
                   written>>

\* one row of the CSV file of export_events: the dumped event with venue and
\* organizer flattened
ExportRow(e) ==
    [url |-> e.url, title |-> e.title, start_at |-> e.start_at,
     description |-> e.description, tags |-> e.tags,
     relevance_score |-> e.relevance_score,
     matched_keywords |-> e.matched_keywords,
     relevance_reason |-> e.relevance_reason,
     venue_raw |-> e.venue.raw, venue_is_online |-> e.venue.is_online,
     organizer_name |-> e.organizer]

\* main.py after the call: export_events(events, ...) and the two prints.
\* Iterating over None raises TypeError, which nothing catches.
MainExport ==
    /\ ppc = "returned"
    /\ IF IsNone(ret)
       THEN /\ written' = NoneVal
            /\ ppc' = "failed"
       ELSE /\ written' = Some([p \in 1..Len(ValueOf(ret)) |-> ExportRow(ValueOf(ret)[p])])
            /\ ppc' = "exported"
    /\ UNCHANGED <<extracted_list, responses, relevance_list, region, sf_terms, now,
                   fates, matched, events, ret>>

\* Runs of the ranking stage: long lists of records that differ in score and
\* date only; the list repeats a pattern of PatternLen records.
RankChoices ==
    {<<In.day12, Verdict(TRUE, 8)>>, <<In.day_now, Verdict(TRUE, 8)>>,
     <<In.tbd, Verdict(TRUE, 8)>>, <<In.day12, Verdict(TRUE, 5)>>,
     <<In.day25, Verdict(TRUE, 10)>>}

RankRecord(url, c) ==
    [url |-> url, title |-> In.ai, date_text |-> c[1], venue_text |-> In.online_upper,
     organizer_text |-> In.host, description_text |-> <<>>]

RankOutcome(c) == [kind |-> "text", text |-> Text(NoMatch, Json(c[2]))]

\* the state when _check_relevance_all has returned
RankStart ==
    /\ \E n \in 0..MaxRankRecs : \E pat \in [0..(PatternLen - 1) -> RankChoices] :
          /\ extracted_list = [k \in 1..n |-> RankRecord(RunUrl(k), pat[k % PatternLen])]
          /\ responses = [k \in 1..n |-> RankOutcome(pat[k % PatternLen])]
    /\ relevance_list = CheckRelevanceAll(extracted_list, responses)
    /\ region \in Regions
    /\ sf_terms = SfBayTerms
    /\ now = Now
    /\ fates = <<>>
    /\ matched = <<>>
    /\ events = <<>>
    /\ ret = NoneVal
    /\ ppc = "checked"
    /\ written = NoneVal

NextRank == FilterRankReturn /\ UNCHANGED <<schedVars, botVars, discVars, scoreVars>>

InitRank == RankStart /\ SchedIdle /\ BotIdle /\ DiscIdle /\ ScoreIdle

SpecRank == InitRank /\ [][NextRank]_vars

NextPipe ==
    \/ RunCheckRelevanceAll /\ UNCHANGED <<schedVars, botVars, discVars, scoreVars>>
    \/ FilterRankReturn /\ UNCHANGED <<schedVars, botVars, discVars, scoreVars>>
    \/ MainExport /\ UNCHANGED <<schedVars, botVars, discVars, scoreVars>>

InitPipe == PipeStart /\ SchedIdle /\ BotIdle /\ DiscIdle /\ ScoreIdle

SpecPipe == InitPipe /\ [][NextPipe]_vars

NextSched ==
    \/ StartBatch /\ UNCHANGED <<pipeVars, botVars, discVars, scoreVars>>
    \/ \E k \in 1..BatchSize : ItemCalls(k) /\ UNCHANGED <<pipeVars, botVars, discVars, scoreVars>>
    \/ \E k \in 1..BatchSize : ItemFetchFails(k) /\ UNCHANGED <<pipeVars, botVars, discVars, scoreVars>>
    \/ \E k \in 1..BatchSize : ItemCallEnds(k) /\ UNCHANGED <<pipeVars, botVars, discVars, scoreVars>>
    \/ \E k \in 1..BatchSize : ItemReturns(k) /\ UNCHANGED <<pipeVars, botVars, discVars, scoreVars>>
    \/ \E k \in 1..BatchSize : ItemRaises(k) /\ UNCHANGED <<pipeVars, botVars, discVars, scoreVars>>
    \/ GatherDone /\ UNCHANGED <<pipeVars, botVars, discVars, scoreVars>>
    \/ BatchTimeout /\ UNCHANGED <<pipeVars, botVars, discVars, scoreVars>>
    \/ SchedReturn /\ UNCHANGED <<pipeVars, botVars, discVars, scoreVars>>

InitSched == SchedStart /\ PipeIdle /\ BotIdle /\ DiscIdle /\ ScoreIdle

SpecSched == InitSched /\ [][NextSched]_vars

-----------------------------------------------------------------------------
(* slack_bot.handle_mention                                                *)
(* Each app_mention event m is handled on its own listener thread.         *)
(* hpc[m]:  "none"      the event has not arrived                          *)
(*          "check"     the handler runs, before "with scraping_lock"      *)
(*          "rejected"  it said "Already scraping" and returned            *)
(*          "accepted"  it set the flag and is inside the try block        *)
(*          "waiting"   it is blocked in future.result(timeout=600)        *)
(*          "shutdown"  the timeout fired; its return leaves the           *)
(*                      "with ThreadPoolExecutor" block, whose exit waits  *)
(*                      for the worker thread                              *)
(*          "done"      the finally block has run                          *)
(* worker[m]: "none", "running", "events", "empty", "raised"               *)

Mentions == 1..MaxMentions

RunActive(m) == worker[m] = "running"

BotStart ==
    /\ is_scraping = FALSE
    /\ hpc = [m \in Mentions |-> "none"]
    /\ worker = [m \in Mentions |-> "none"]
    /\ started = [m \in Mentions |-> 0]

\* an app_mention event arrives and its handler starts
MentionArrives(m) ==
    /\ hpc[m] = "none"
    /\ hpc' = [hpc EXCEPT ![m] = "check"]
    /\ UNCHANGED <<is_scraping, worker, started>>

\* "with scraping_lock: if is_scraping: say(...); return / is_scraping = True"
CheckFlag(m) ==
    /\ hpc[m] = "check"
    /\ IF is_scraping
       THEN /\ hpc' = [hpc EXCEPT ![m] = "rejected"]
            /\ UNCHANGED is_scraping
       ELSE /\ is_scraping' = TRUE
            /\ hpc' = [hpc EXCEPT ![m] = "accepted"]
    /\ UNCHANGED <<worker, started>>

\* say, mkdir and build_judgment_keyword_set succeed; run_scraper is submitted
SubmitRun(m) ==
    /\ hpc[m] = "accepted"
    /\ worker' = [worker EXCEPT ![m] = "running"]
    /\ started' = [started EXCEPT ![m] = @ + 1]
    /\ hpc' = [hpc EXCEPT ![m] = "waiting"]
    /\ UNCHANGED is_scraping

\* say, mkdir or build_judgment_keyword_set raises: except, then finally
PrepareFails(m) ==
    /\ hpc[m] = "accepted"
    /\ is_scraping' = FALSE
    /\ hpc' = [hpc EXCEPT ![m] = "done"]
    /\ UNCHANGED <<worker, started>>

\* scrape_luma_events_with_agent ends on the worker thread
WorkerEnds(m) ==
    /\ worker[m] = "running"
    /\ \E r \in {"events", "empty", "raised"} : worker' = [worker EXCEPT ![m] = r]
    /\ UNCHANGED <<is_scraping, hpc, started>>

\* future.result returns or re-raises; the handler reports and runs finally
ResultTaken(m) ==
    /\ hpc[m] = "waiting"
    /\ worker[m] \in {"events", "empty", "raised"}
    /\ is_scraping' = FALSE
    /\ hpc' = [hpc EXCEPT ![m] = "done"]
    /\ UNCHANGED <<worker, started>>

\* a faulty variant whose executor is not waited for: finally runs at once
RunTimeoutNoWait(m) ==
    /\ hpc[m] = "waiting"
    /\ worker[m] = "running"
    /\ is_scraping' = FALSE
    /\ hpc' = [hpc EXCEPT ![m] = "done"]
    /\ UNCHANGED <<worker, started>>

\* future.result(timeout=600) raises FutureTimeoutError: say, return; the
\* return leaves the with block, whose exit joins the worker thread
RunTimeout(m) ==
    /\ hpc[m] = "waiting"
    /\ worker[m] = "running"
    /\ hpc' = [hpc EXCEPT ![m] = "shutdown"]
    /\ UNCHANGED <<is_scraping, worker, started>>

\* the worker thread has ended: the executor's exit returns, finally runs
ShutdownEnds(m) ==
    /\ hpc[m] = "shutdown"
    /\ worker[m] # "running"
    /\ is_scraping' = FALSE
    /\ hpc' = [hpc EXCEPT ![m] = "done"]
    /\ UNCHANGED <<worker, started>>

NextBot ==
    \/ \E m \in Mentions : MentionArrives(m) /\ UNCHANGED <<schedVars, pipeVars, discVars, scoreVars>>
    \/ \E m \in Mentions : CheckFlag(m) /\ UNCHANGED <<schedVars, pipeVars, discVars, scoreVars>>
    \/ \E m \in Mentions : SubmitRun(m) /\ UNCHANGED <<schedVars, pipeVars, discVars, scoreVars>>
    \/ \E m \in Mentions : PrepareFails(m) /\ UNCHANGED <<schedVars, pipeVars, discVars, scoreVars>>
    \/ \E m \in Mentions : WorkerEnds(m) /\ UNCHANGED <<schedVars, pipeVars, discVars, scoreVars>>
    \/ \E m \in Mentions : ResultTaken(m) /\ UNCHANGED <<schedVars, pipeVars, discVars, scoreVars>>
    \/ \E m \in Mentions : RunTimeout(m) /\ UNCHANGED <<schedVars, pipeVars, discVars, scoreVars>>
    \/ \E m \in Mentions : ShutdownEnds(m) /\ UNCHANGED <<schedVars, pipeVars, discVars, scoreVars>>

InitBot == BotStart /\ SchedIdle /\ PipeIdle /\ DiscIdle /\ ScoreIdle

SpecBot == InitBot /\ [][NextBot]_vars

-----------------------------------------------------------------------------
(* Texts of the discovery stage: character classes and the regular         *)
(* expressions of _extract_urls_from_text and _run_agent_sdk               *)

LowerSet == {LowerChars[k] : k \in 1..Len(LowerChars)}

\* the character class [a-zA-Z0-9_-]
IdChars == UpperSet \cup LowerSet \cup {"0", "1", "2", "3", "4", "5", "6", "7", "8", "9"} \cup {"_", "-"}

IsIdChar(c) == c \in IdChars

MinOf(S) == CHOOSE k \in S : \A m \in S : k <= m

\* s[p-1:].startswith(pre), p counted from 1
StartsWithAt(s, p, pre) ==
    p + Len(pre) - 1 <= Len(s) /\ SubSeq(s, p, p + Len(pre) - 1) = pre

\* str.startswith
StartsWith(s, pre) == StartsWithAt(s, 1, pre)

\* length of the longest run of [a-zA-Z0-9_-] in s that starts at p
IdRunLen(s, p) ==
    LET stops == {k \in p..Len(s) : ~IsIdChar(s[k])}
    IN  IF p > Len(s) THEN 0
        ELSE IF stops = {} THEN Len(s) - p + 1 ELSE MinOf(stops) - p

\* str.islower(): some cased character, and no upper-case one
StrIsLower(s) ==
    /\ \E k \in 1..Len(s) : s[k] \in LowerSet
    /\ \A k \in 1..Len(s) : s[k] \notin UpperSet

\* the first item of s.split(sep) for a one-character sep
SplitFirst(s, sep) ==
    LET hits == {k \in 1..Len(s) : s[k] = sep}
    IN  IF hits = {} THEN s ELSE SubSeq(s, 1, MinOf(hits) - 1)

\* str.replace(old, new): every occurrence, left to right, without overlap
RECURSIVE StrReplace(_, _, _)
StrReplace(s, old, new) ==
    IF s = <<>> THEN <<>>
    ELSE IF StartsWith(s, old)
         THEN new \o StrReplace(SubSeq(s, Len(old) + 1, Len(s)), old, new)
         ELSE <<Head(s)>> \o StrReplace(Tail(s), old, new)

\* the items of s without repetitions, in the order of their first occurrence
\* (list(dict.fromkeys(s)))
Dedupe(s) ==
    LET first == SelectSeq([k \in 1..Len(s) |-> k],
                           LAMBDA k : \A j \in 1..(k - 1) : s[j] # s[k])
    IN  [p \in 1..Len(first) |-> s[first[p]]]

TxtLuMa      == <<"l", "u", ".", "m", "a">>
TxtLumaCom   == <<"l", "u", "m", "a", ".", "c", "o", "m">>
TxtLuMaBase  == <<"h", "t", "t", "p", "s", ":", "/", "/", "l", "u", ".", "m", "a", "/">>
Quotes       == {"\"", "'"}

\* the alternatives of https?://(?:lu\.ma|luma\.com)/
AbsPrefixes ==
    {<<"h", "t", "t", "p", ":", "/", "/", "l", "u", ".", "m", "a", "/">>,
     <<"h", "t", "t", "p", "s", ":", "/", "/", "l", "u", ".", "m", "a", "/">>,
     <<"h", "t", "t", "p", ":", "/", "/", "l", "u", "m", "a", ".", "c", "o", "m", "/">>,
     <<"h", "t", "t", "p", "s", ":", "/", "/", "l", "u", "m", "a", ".", "c", "o", "m", "/">>}

\* https?://(?:lu\.ma|luma\.com)/([a-zA-Z0-9_-]+) matched at position p of s:
\* the captured group in a one-item tuple, or the empty tuple
AbsIdAt(s, p) ==
    LET pres == {pre \in AbsPrefixes :
                    StartsWithAt(s, p, pre) /\ IdRunLen(s, p + Len(pre)) >= 1}
    IN  IF p > Len(s) \/ s[p] # "h" \/ pres = {} THEN <<>>
        ELSE LET pre == CHOOSE x \in pres : TRUE
                 n == IdRunLen(s, p + Len(pre))
             IN  <<SubSeq(s, p + Len(pre), p + Len(pre) + n - 1)>>

\* ["\']https?://(?:lu\.ma|luma\.com)/([a-zA-Z0-9_-]+)["\'] matched at p
QuotedAbsIdAt(s, p) ==
    IF p + 1 <= Len(s) /\ s[p] \in Quotes /\ AbsIdAt(s, p + 1) # <<>>
    THEN LET id == AbsIdAt(s, p + 1)[1]
             pre == CHOOSE x \in AbsPrefixes : StartsWithAt(s, p + 1, x)
             q == p + 1 + Len(pre) + Len(id)
         IN  IF q <= Len(s) /\ s[q] \in Quotes THEN <<id>> ELSE <<>>
    ELSE <<>>

\* href=["\']/?([a-zA-Z0-9_-]+)["\'] matched at p
HrefIdAt(s, p) ==
    IF s[p] = "h" /\ StartsWithAt(s, p, <<"h", "r", "e", "f", "=">>) /\ p + 6 <= Len(s) /\ s[p + 5] \in Quotes
    THEN LET b == IF s[p + 6] = "/" THEN p + 7 ELSE p + 6
             n == IdRunLen(s, b)
         IN  IF n >= 1 /\ b + n <= Len(s) /\ s[b + n] \in Quotes
             THEN <<SubSeq(s, b, b + n - 1)>> ELSE <<>>
    ELSE <<>>

\* one of the three patterns matched at position p of s: the captured group
\* in a one-item tuple, or the empty tuple
MatchAt(s, pattern, p) ==
    CASE pattern = "abs" -> AbsIdAt(s, p)
      [] pattern = "quoted" -> QuotedAbsIdAt(s, p)
      [] OTHER -> HrefIdAt(s, p)

\* the position after the last character of the match at p (there is one)
MatchEnd(s, pattern, p) ==
    LET id == MatchAt(s, pattern, p)[1]
    IN  CASE pattern = "abs" ->
               LET pre == CHOOSE x \in AbsPrefixes : StartsWithAt(s, p, x)
               IN  p + Len(pre) + Len(id)
          [] pattern = "quoted" ->
               LET pre == CHOOSE x \in AbsPrefixes : StartsWithAt(s, p + 1, x)
               IN  p + 1 + Len(pre) + Len(id) + 1
          [] OTHER ->
               LET b == IF s[p + 6] = "/" THEN p + 7 ELSE p + 6
               IN  b + Len(id) + 1

\* the positions of s at which the pattern matches, in increasing order
MatchStarts(s, pattern) ==
    SelectSeq([k \in 1..Len(s) |-> k], LAMBDA p : MatchAt(s, pattern, p) # <<>>)

\* the scan of re.findall from position p on, ps being the positions not
\* yet passed at which the pattern matches: the leftmost match at or after
\* p is taken and the scan resumes after its end, so that a match never
\* starts inside the previous one
RECURSIVE FindFrom(_, _, _, _)
FindFrom(s, pattern, ps, p) ==
    IF ps = <<>> THEN <<>>
    ELSE IF Head(ps) < p THEN FindFrom(s, pattern, Tail(ps), p)
    ELSE <<MatchAt(s, pattern, Head(ps))[1]>>
            \o FindFrom(s, pattern, Tail(ps), MatchEnd(s, pattern, Head(ps)))

\* re.findall for one of the three patterns: the captured groups of the
\* non-overlapping matches, from left to right
FindAll(s, pattern) == FindFrom(s, pattern, MatchStarts(s, pattern), 1)

\* the `excluded` set of the anchor pass and of the data-attribute pass
ExcludedShort ==
    {<<"s", "f">>,
     <<"i", "o", "s">>,
     <<"a", "n", "d", "r", "o", "i", "d">>,
     <<"w", "e", "b">>,
     <<"a", "b", "o", "u", "t">>,
     <<"h", "e", "l", "p">>,
     <<"p", "r", "i", "v", "a", "c", "y">>,
     <<"t", "e", "r", "m", "s">>,
     <<"l", "o", "g", "i", "n">>,
     <<"s", "i", "g", "n", "u", "p">>,
     <<"e", "x", "p", "l", "o", "r", "e">>,
     <<"d", "i", "s", "c", "o", "v", "e", "r">>,
     <<"e", "v", "e", "n", "t", "s">>,
     <<"o", "r", "g", "a", "n", "i", "z", "e", "r", "s">>,
     <<"v", "e", "n", "u", "e", "s">>,
     <<"c", "o", "n", "t", "a", "c", "t">>,
     <<"b", "l", "o", "g">>,
     <<"j", "o", "b", "s">>,
     <<"p", "r", "e", "s", "s">>,
     <<"a", "p", "i">>,
     <<"d", "o", "c", "s">>,
     <<"c", "r", "e", "a", "t", "e">>,
     <<"e", "v", "e", "n", "t">>,
     <<"d", "e", "s", "c", "r", "i", "p", "t", "i", "o", "n">>,
     <<"s", "l", "u", "g">>,
     <<"u", "r", "l">>,
     <<"i", "m", "a", "g", "e">>,
     <<"i", "n", "f", "o">>}

\* the `excluded` set of the regex pass and of the script pass
ExcludedLong ==
    ExcludedShort \cup
    {<<"h", "e", "r", "o", "_", "i", "m", "a", "g", "e", "_", "m", "o", "b", "i", "l", "e", "_", "u", "r", "l">>,
     <<"h", "e", "r", "o", "_", "i", "m", "a", "g", "e", "_", "d", "e", "s", "k", "t", "o", "p", "_", "u", "r", "l">>,
     <<"i", "s", "_", "f", "r", "e", "e">>,
     <<"v", "i", "r", "t", "u", "a", "l", "_", "i", "n", "f", "o">>,
     <<"p", "e", "r", "s", "o", "n", "a", "l", "_", "u", "s", "e", "r">>}

\* re.match(r'^[a-z_]+$', s)
MatchSnake(s) == s # <<>> /\ \A k \in 1..Len(s) : s[k] \in LowerSet \cup {"_"}

\* re.match(r'^[a-z]+[A-Z]', s)
MatchCamel(s) ==
    \E k \in 2..Len(s) : s[k] \in UpperSet /\ \A j \in 1..(k - 1) : s[j] \in LowerSet

HasNonEventPrefix(s) == \E pre \in {<<"u", "s", "r", "-">>, <<"c", "a", "l", "-">>, <<"o", "r", "g", "-">>} : StartsWith(s, pre)

MinIdLen == 4
ShortIdLen == 8

\* "too short", or "all lower-case and short" without the evt- prefix
TooShort(s) ==
    \/ Len(s) < MinIdLen
    \/ StrIsLower(s) /\ Len(s) < ShortIdLen /\ ~StartsWith(s, <<"e", "v", "t", "-">>)

-----------------------------------------------------------------------------
(* The listing page.  A document is a sequence of elements: anchors with   *)
(* an href, script blocks with their text, and elements with one data-     *)
(* attribute, with or without a class attribute.  The regex pass reads the *)
(* markup text of the document, the other passes read the elements         *)
(* BeautifulSoup finds in it.                                              *)

Anchor(href)    == [tag |-> "a", val |-> href]
Script(text)    == [tag |-> "script", val |-> text]
DataElem(value) == [tag |-> "div", val |-> value]
ClassedDataElem(value, class) == [tag |-> "div", val |-> value, cls |-> class]

\* the value of the class attribute of an element, None when it has none
ClassOf(e) == IF "cls" \in DOMAIN e THEN Some(e.cls) ELSE NoneVal

\* the markup of one element
Render(e) ==
    IF e.tag = "a" THEN <<"<", "a", " ", "h", "r", "e", "f", "=", "\"">> \o e.val \o <<"\"", ">">>
    ELSE IF e.tag = "script"
         THEN <<"<", "s", "c", "r", "i", "p", "t", ">">> \o e.val \o <<"<", "/", "s", "c", "r", "i", "p", "t", ">">>
         ELSE <<"<", "d", "i", "v">>
              \o (IF IsNone(ClassOf(e)) THEN <<>>
                  ELSE <<" ", "c", "l", "a", "s", "s", "=", "\"">> \o e.cls \o <<"\"">>)
              \o <<" ", "d", "a", "t", "a", "-", "i", "d", "=", "\"">> \o e.val \o <<"\"", ">">>

\* the markup of a document (page.content() or response.text)
RECURSIVE HtmlText(_)
HtmlText(doc) == IF doc = <<>> THEN <<>> ELSE Render(Head(doc)) \o HtmlText(Tail(doc))

\* soup.find_all for one kind of element, in document order
ElementsOf(doc, tag) == SelectSeq(doc, LAMBDA e : e.tag = tag)

\* the concatenation of a sequence of sequences
RECURSIVE Concat(_)
Concat(ss) == IF ss = <<>> THEN <<>> ELSE Head(ss) \o Concat(Tail(ss))

-----------------------------------------------------------------------------
(* _extract_urls_from_text and the passes of _run_agent_sdk *)

\* str.strip('/')
StripSlashes(s) ==
    LET keep == {k \in 1..Len(s) : s[k] # "/"}
    IN  IF keep = {} THEN <<>>
        ELSE SubSeq(s, MinOf(keep), CHOOSE k \in keep : \A m \in keep : m <= k)

\* the checks of the loop of _extract_urls_from_text on url_id_clean
ValidRegexId(id) ==
    /\ StrLower(id) \notin ExcludedLong
    /\ ~MatchSnake(id)
    /\ ~MatchCamel(id)
    /\ ~HasNonEventPrefix(id)
    /\ ~TooShort(id)

\* _extract_urls_from_text(text)
ExtractUrlsFromText(text) ==
    LET found == FindAll(text, "abs") \o FindAll(text, "quoted")
                    \o FindAll(text, "href")
        clean == [k \in 1..Len(found) |->
                     SplitFirst(SplitFirst(StripSlashes(found[k]), "/"), "?")]
        valid == SelectSeq(clean, ValidRegexId)
    IN  Dedupe([k \in 1..Len(valid) |-> TxtLuMaBase \o valid[k]])

\* The anchor pass on one href: the URL it adds to all_urls, in a one-item
\* tuple, or the empty tuple.  (The two length checks of this pass follow a
\* `continue` at a deeper indentation and are never executed.)
AnchorUrl(href) ==
    IF StrContains(TxtLuMa, href) \/ StrContains(TxtLumaCom, href)
    THEN LET abs == IF StartsWith(href, <<"/">>) THEN <<"h", "t", "t", "p", "s", ":", "/", "/", "l", "u", ".", "m", "a">> \o href
                    ELSE IF ~StartsWith(href, <<"h", "t", "t", "p">>) THEN TxtLuMaBase \o href
                    ELSE href
             h == StrReplace(abs, TxtLumaCom, TxtLuMa)
         IN  IF StartsWith(h, TxtLuMaBase)
             THEN LET url_id == SplitFirst(SplitFirst(
                                    StrReplace(h, TxtLuMaBase, <<>>), "/"), "?")
                  IN  IF StrLower(url_id) \in ExcludedShort \/ HasNonEventPrefix(url_id)
                      THEN <<>> ELSE <<h>>
             ELSE <<>>
    ELSE <<>>

\* the checks of the script pass on url_id
ValidScriptId(id) ==
    /\ StrLower(id) \notin ExcludedLong
    /\ ~HasNonEventPrefix(id)
    /\ ~MatchSnake(id)
    /\ ~MatchCamel(id)
    /\ ~TooShort(id)

\* the script pass on the text of one script block: the URLs it adds
ScriptUrls(text) ==
    LET ids == SelectSeq(FindAll(text, "abs"), ValidScriptId)
    IN  [k \in 1..Len(ids) |-> TxtLuMaBase \o ids[k]]

\* the checks of the data-attribute pass on the attribute's value
ValidDataValue(value) ==
    /\ StrLower(value) \notin ExcludedShort
    /\ ~HasNonEventPrefix(value)
    /\ ~MatchSnake(value)
    /\ ~MatchCamel(value)
    /\ ~TooShort(value)

\* the data-attribute pass on one value: the URL it adds
DataUrl(value) == IF ValidDataValue(value) THEN <<TxtLuMaBase \o value>> ELSE <<>>

\* The lambda of soup.find_all(attrs=lambda x: x and any(... for k in
\* x.keys())) applied to x.  BeautifulSoup takes an `attrs` argument that is
\* not a dict as a filter on the class attribute, so x is the class value of
\* an element and never its attribute dict: None for an element without a
\* class and the empty string for class="" (`x and ...` is falsy), a
\* non-empty string otherwise (x.keys() raises AttributeError).
DataFilter(x) ==
    IF IsNone(x) \/ ValueOf(x) = <<>> THEN "falsy" ELSE "raise"

\* The data-attribute pass: the URLs it adds.  find_all applies the filter to
\* every element of the document before the body of the loop runs; an
\* AttributeError ends the pass in its except branch.
DataPassUrls(doc) ==
    LET selected == SelectSeq(doc, LAMBDA e : DataFilter(ClassOf(e)) = "truthy")
    IN  IF \E k \in 1..Len(doc) : DataFilter(ClassOf(doc[k])) = "raise"
        THEN <<>>
        ELSE Concat([k \in 1..Len(selected) |-> DataUrl(selected[k].val)])

\* The URLs in the order in which the passes add them to all_urls; the
\* passes over the parsed document are skipped when BeautifulSoup raised.
AddedUrls(doc, soup_ok) ==
    LET anchors == ElementsOf(doc, "a")
        scripts == ElementsOf(doc, "script")
    IN  ExtractUrlsFromText(HtmlText(doc)) \o
        (IF soup_ok
         THEN Concat([k \in 1..Len(anchors) |-> AnchorUrl(anchors[k].val)]) \o
              Concat([k \in 1..Len(scripts) |-> ScriptUrls(scripts[k].val)]) \o
              DataPassUrls(doc)
         ELSE <<>>)

\* the set a sequence of additions leaves in all_urls
SetOf(s) == {s[k] : k \in 1..Len(s)}

\* list(all_urls): the items of the set in the iteration order of the set,
\* which depends on the hashes of the strings and may be any order
ListsOfSet(S) ==
    {f \in [1..Cardinality(S) -> S] : \A a, b \in 1..Cardinality(S) : f[a] = f[b] => a = b}

-----------------------------------------------------------------------------
(* _run_agent_sdk(days, max_events): the fetch of the listing page and the *)
(* extraction of the URLs                                                  *)
(* dpc: "start"    before the import of Playwright                         *)
(*      "pages"    in the loop over pages_to_try, at page number page_idx  *)
(*      "default"  no page gave a text: the unguarded retry of the first   *)
(*      "close"    before page.close() and browser.close()                 *)
(*      "http"     in an except branch, before the plain HTTP fetch        *)
(*      "extract"  at "if html:"                                           *)
(*      "returned" the function has returned event_urls                    *)
(*      "raised"   an exception has left the function                      *)

\* longest listing document, in elements
MaxElems == 2

\* largest max_events
MaxTarget == 2

\* pages_to_try has three entries
PagesToTry == 3

\* the elements a listing document is made of
ElemPool ==
    {Anchor(<<"h", "t", "t", "p", "s", ":", "/", "/", "l", "u", ".", "m", "a", "/", "A", "b", "1", "2">>),
     Anchor(<<"h", "t", "t", "p", "s", ":", "/", "/", "l", "u", "m", "a", ".", "c", "o", "m", "/", "A", "b", "1", "2">>),
     Anchor(<<"h", "t", "t", "p", ":", "/", "/", "l", "u", ".", "m", "a", "/", "A", "b", "1", "2">>),
     Anchor(<<"h", "t", "t", "p", "s", ":", "/", "/", "l", "u", ".", "m", "a", "/", "A", "b", "1", "2", "?", "k", "=", "1">>),
     Anchor(<<"h", "t", "t", "p", "s", ":", "/", "/", "l", "u", ".", "m", "a", "/", "A", "b", "1", "2", "/">>),
     Anchor(<<"h", "t", "t", "p", "s", ":", "/", "/", "L", "U", ".", "M", "A", "/", "A", "b", "1", "2">>),
     Anchor(<<"/", "X", "y", "3", "4">>),
     Script(<<"\"", "h", "t", "t", "p", "s", ":", "/", "/", "l", "u", ".", "m", "a", "/", "X", "y", "3", "4", "\"">>),
     DataElem(<<"e", "v", "t", "-", "9">>),
     ClassedDataElem(<<"e", "v", "t", "-", "8">>, <<"c">>),
     ClassedDataElem(<<"e", "v", "t", "-", "7">>, <<>>),
     Script(<<"h", "t", "t", "p", "s", ":", "/", "/", "l", "u", ".", "m", "a", "/", "A", "b", "1", "2", "h", "t", "t", "p", "s", ":", "/", "/", "l", "u", ".", "m", "a", "/", "C", "d", "3", "4">>),
     Anchor(<<"h", "t", "t", "p", "s", ":", "/", "/", "l", "u", ".", "m", "a", "/", "a", "b", "c">>)}

\* `if html:` (None and the empty text are false)
HtmlTruthy(h) == ~IsNone(h) /\ HtmlText(ValueOf(h)) # <<>>

DiscStart ==
    /\ listing \in SeqsUpTo(ElemPool, MaxElems)
    /\ max_events \in 1..MaxTarget
    /\ dpc = "start"
    /\ page_idx = 0
    /\ html = NoneVal
    /\ render = "none"
    /\ http_tried = FALSE
    /\ added = <<>>
    /\ all_urls = {}
    /\ event_urls = <<>>

\* the import raises ImportError: the except ImportError branch
PlaywrightMissing ==
    /\ dpc = "start"
    /\ render' = "unavailable"
    /\ dpc' = "http"
    /\ UNCHANGED <<listing, max_events, page_idx, html, http_tried, added, all_urls, event_urls>>

\* async_playwright(), chromium.launch and new_page succeed
BrowserStarts ==
    /\ dpc = "start"
    /\ page_idx' = 1
    /\ dpc' = "pages"
    /\ UNCHANGED <<listing, max_events, html, render, http_tried, added, all_urls, event_urls>>

\* async_playwright(), chromium.launch or new_page raises: except Exception
BrowserFails ==
    /\ dpc = "start"
    /\ render' = "launch_error"
    /\ dpc' = "http"
    /\ UNCHANGED <<listing, max_events, page_idx, html, http_tried, added, all_urls, event_urls>>

\* goto, the scrolling and page.content() succeed for the current page:
\* break, then `if not html:`, which sends an empty page text to the retry
PageLoads ==
    /\ dpc = "pages"
    /\ html' = Some(listing)
    /\ render' = "ok"
    /\ page_idx' = 0
    /\ dpc' = IF HtmlTruthy(html') THEN "close" ELSE "default"
    /\ UNCHANGED <<listing, max_events, http_tried, added, all_urls, event_urls>>

\* the current page raises: the inner except logs it and the loop continues
PageFails ==
    /\ dpc = "pages"
    /\ page_idx' = IF page_idx = PagesToTry THEN 0 ELSE page_idx + 1
    /\ dpc' = IF page_idx = PagesToTry THEN "default" ELSE "pages"
    /\ UNCHANGED <<listing, max_events, html, render, http_tried, added, all_urls, event_urls>>

\* "if not html" (every page raised, or one gave the empty text): the retry
\* of the first page succeeds
DefaultLoads ==
    /\ dpc = "default"
    /\ html' = Some(listing)
    /\ render' = "ok"
    /\ dpc' = "close"
    /\ UNCHANGED <<listing, max_events, page_idx, http_tried, added, all_urls, event_urls>>

\* the retry raises: finally closes the browser, the outer except Exception
\* takes over
DefaultFails ==
    /\ dpc = "default"
    /\ render' = "all_failed"
    /\ dpc' = "http"
    /\ UNCHANGED <<listing, max_events, page_idx, html, http_tried, added, all_urls, event_urls>>

\* page.close() and browser.close() return
BrowserCloses ==
    /\ dpc = "close"
    /\ dpc' = "extract"
    /\ UNCHANGED <<listing, max_events, page_idx, html, render, http_tried, added, all_urls, event_urls>>

\* page.close() or browser.close() raises: the outer except Exception
CloseFails ==
    /\ dpc = "close"
    /\ render' = "close_error"
    /\ dpc' = "http"
    /\ UNCHANGED <<listing, max_events, page_idx, html, http_tried, added, all_urls, event_urls>>

\* a faulty variant whose HTTP fetch is not guarded: its exception leaves
\* the function
HttpFallbackUnguarded ==
    /\ dpc = "http"
    /\ http_tried' = TRUE
    /\ \/ /\ \E body \in {listing, <<>>} : html' = Some(body)
          /\ dpc' = "extract"
          /\ UNCHANGED event_urls
       \/ /\ dpc' = "raised"
          /\ UNCHANGED <<html, event_urls>>
    /\ UNCHANGED <<listing, max_events, page_idx, render, added, all_urls>>

\* the plain HTTP fetch of the except branches: response.text (which may be
\* empty), or an exception, on which the function returns no URLs
HttpFallback ==
    /\ dpc = "http"
    /\ http_tried' = TRUE
    /\ \/ /\ \E body \in {listing, <<>>} : html' = Some(body)
          /\ dpc' = "extract"
          /\ UNCHANGED event_urls
       \/ /\ event_urls' = <<>>
          /\ dpc' = "returned"
          /\ UNCHANGED html
    /\ UNCHANGED <<listing, max_events, page_idx, render, added, all_urls>>

\* urls = list(all_urls): the lists the conversion can give
ReturnedLists(adds) == ListsOfSet(SetOf(adds))

\* "if html:" to the end: the passes, list(all_urls), urls[:max_events]
ExtractAndReturn ==
    /\ dpc = "extract"
    /\ IF HtmlTruthy(html)
       THEN \E soup_ok \in BOOLEAN :
               /\ added' = AddedUrls(ValueOf(html), soup_ok)
               /\ all_urls' = SetOf(added')
               /\ \E l \in ReturnedLists(added') : event_urls' = Prefix(l, max_events)
       ELSE /\ event_urls' = <<>>
            /\ UNCHANGED <<added, all_urls>>
    /\ dpc' = "returned"
    /\ UNCHANGED <<listing, max_events, page_idx, html, render, http_tried>>

NextDisc ==
    \/ PlaywrightMissing /\ UNCHANGED <<schedVars, pipeVars, botVars, scoreVars>>
    \/ BrowserStarts /\ UNCHANGED <<schedVars, pipeVars, botVars, scoreVars>>
    \/ BrowserFails /\ UNCHANGED <<schedVars, pipeVars, botVars, scoreVars>>
    \/ PageLoads /\ UNCHANGED <<schedVars, pipeVars, botVars, scoreVars>>
    \/ PageFails /\ UNCHANGED <<schedVars, pipeVars, botVars, scoreVars>>
    \/ DefaultLoads /\ UNCHANGED <<schedVars, pipeVars, botVars, scoreVars>>
    \/ DefaultFails /\ UNCHANGED <<schedVars, pipeVars, botVars, scoreVars>>
    \/ BrowserCloses /\ UNCHANGED <<schedVars, pipeVars, botVars, scoreVars>>
    \/ CloseFails /\ UNCHANGED <<schedVars, pipeVars, botVars, scoreVars>>
    \/ HttpFallback /\ UNCHANGED <<schedVars, pipeVars, botVars, scoreVars>>
    \/ ExtractAndReturn /\ UNCHANGED <<schedVars, pipeVars, botVars, scoreVars>>

InitDisc == DiscStart /\ SchedIdle /\ PipeIdle /\ BotIdle /\ ScoreIdle

SpecDisc == InitDisc /\ [][NextDisc]_vars

-----------------------------------------------------------------------------
(* judgment_topics.keyword_hits and filtering.score_relevance              *)

\* the characters of keywords, in the order of their code points
CodePointOrder ==
    <<" ", "-", "/", "0", "1", "2", "3", "4", "5", "6", "7", "8", "9", "_",
      "a", "b", "c", "d", "e", "f", "g", "h", "i", "j", "k", "l", "m",
      "n", "o", "p", "q", "r", "s", "t", "u", "v", "w", "x", "y", "z">>

CharRank ==
    [c \in SetOf(CodePointOrder) |->
        CHOOSE k \in 1..Len(CodePointOrder) : CodePointOrder[k] = c]

\* a < b for two str: the first difference decides, a proper prefix is smaller
StrLess(a, b) ==
    \E p \in 1..Len(b) :
        /\ \A q \in 1..(p - 1) : q <= Len(a) /\ a[q] = b[q]
        /\ \/ p = Len(a) + 1
           \/ p <= Len(a) /\ CharRank[a[p]] < CharRank[b[p]]

\* sorted(S) for a set of str
SortedStrs(S) ==
    [p \in 1..Cardinality(S) |->
        CHOOSE x \in S : Cardinality({y \in S : StrLess(y, x)}) = p - 1]

\* a faulty variant that returns the hits in the order of the iteration
KeywordHitsUnsorted(text, order) ==
    LET t == StrLower(text)
    IN  SelectSeq(order, LAMBDA k : k # <<>> /\ StrContains(k, t))

\* keyword_hits(text, keywords), when iterating over `keywords` yields the
\* sequence `order`
KeywordHits(text, order) ==
    LET t == StrLower(text)
        hits == SelectSeq(order, LAMBDA k : k # <<>> /\ StrContains(k, t))
    IN  SortedStrs(SetOf(hits))

\* " ".join(parts)
RECURSIVE JoinSpace(_)
JoinSpace(parts) ==
    IF parts = <<>> THEN <<>>
    ELSE IF Len(parts) = 1 THEN parts[1]
    ELSE parts[1] \o <<" ">> \o JoinSpace(Tail(parts))

\* "x or ''" for an optional text
OrEmpty(o) == IF IsNone(o) THEN <<>> ELSE ValueOf(o)

\* the text score_relevance searches
Blob(event) ==
    JoinSpace(<<event.title, OrEmpty(event.description), JoinSpace(event.tags),
                event.venue.raw, OrEmpty(event.organizer)>>)

\* score_relevance(event, keywords): the event with its score (in tenths)
\* and its matched_keywords set
ScoreRelevance(event, order) ==
    LET hits == KeywordHits(Blob(event), order)
        title_hits == KeywordHits(event.title, order)
    IN  [event EXCEPT !.relevance_score = 10 * Len(hits) + 15 * Len(title_hits),
                      !.matched_keywords = hits]

\* keyword profiles: subsets of two of the seed keywords
KeywordPool == {<<"p", "i", "i">>, <<"a", "g", "e", "n", "t", " ", "o", "p", "s">>}

\* an Event as the pipeline builds it, never scored by the heuristic
ScoreEvent(title, description) ==
    MakeEvent([url |-> RunUrl(1), title |-> title, date_text |-> In.tbd,
               venue_text |-> In.oakland, organizer_text |-> In.host,
               description_text |-> description],
              [is_relevant |-> FALSE, relevance_score |-> 0,
               reason |-> <<>>, matched_topics |-> <<>>])

ScoreEventPool ==
    {ScoreEvent(In.pii_title, <<>>), ScoreEvent(In.agent_title, In.ops_desc),
     ScoreEvent(In.ai, In.safety)}

ScoreStart ==
    /\ sc_keywords \in SUBSET KeywordPool
    /\ \E n \in 1..MaxScored : sc_events \in [1..n -> ScoreEventPool]
    /\ sc_log = <<>>

\* one call score_relevance(sc_events[k], sc_keywords); the set is iterated
\* in any order
ScoreRelevanceCall ==
    /\ Len(sc_log) < MaxCalls
    /\ \E k \in 1..Len(sc_events) : \E order \in ListsOfSet(sc_keywords) :
          LET e == ScoreRelevance(sc_events[k], order)
          IN  /\ sc_events' = [sc_events EXCEPT ![k] = e]
              /\ sc_log' = Append(sc_log, [idx |-> k, order |-> order,
                                           score |-> e.relevance_score,
                                           hits |-> e.matched_keywords])
    /\ UNCHANGED sc_keywords

NextScore == ScoreRelevanceCall /\ UNCHANGED <<schedVars, pipeVars, botVars, discVars>>

InitScore == ScoreStart /\ SchedIdle /\ PipeIdle /\ BotIdle /\ DiscIdle

SpecScore == InitScore /\ [][NextScore]_vars

-----------------------------------------------------------------------------
(* Properties of the batch scheduler (SpecSched) *)

IsStub(r) ==
    /\ r.title = <<>> /\ r.date_text = <<>> /\ r.venue_text = <<>>
    /\ r.organizer_text = <<>> /\ r.description_text = <<>>

\* C1: the scheduler returns exactly one record per input URL, and the record
\* at position p carries the p-th input URL, whatever the items' outcomes and
\* across batches; while it runs, the output is such a prefix.
C1_Totality ==
    /\ Len(all_results) <= Len(urls)
    /\ \A p \in 1..Len(all_results) : all_results[p].url = urls[p]
    /\ spc = "returned" => Len(all_results) = Len(urls)

\* a returned run of three URLs (two batches) with different URLs, in which
\* one item failed and one item was extracted
C1_Witness ==
    /\ spc = "returned"
    /\ Len(urls) = 3
    /\ urls[1] # urls[2]
    /\ Len(all_results) = 3
    /\ IsStub(all_results[1])
    /\ all_results[2].title = In.ai
    /\ all_results[3].title = In.ai

\* C2: an item that had completed keeps its extracted record in the output,
\* also when the aggregate timeout of its batch fired.
C2_CompletedItemsKept ==
    \A p \in DOMAIN finished :
        p <= Len(all_results) => all_results[p] = finished[p]

-----------------------------------------------------------------------------
(* Properties of the app_mention handler (SpecBot) *)

\* C3: at most one run is executing at any time; a handler that makes its
\* check while a run is executing is rejected; a rejected handler never starts
\* a run; and the check of a handler is never blocked by a run.
C3_SingleRun ==
    /\ [](Cardinality({m \in Mentions : RunActive(m)}) <= 1)
    /\ [][\A m \in Mentions :
            (hpc[m] = "check" /\ hpc'[m] # "check" /\ (\E g \in Mentions : RunActive(g)))
                => hpc'[m] = "rejected"]_vars
    /\ [](\A m \in Mentions :
            hpc[m] = "rejected" => (started[m] = 0 /\ worker[m] = "none"))
    /\ [][\A m \in Mentions : hpc[m] = "rejected" => hpc'[m] = "rejected"]_vars
    /\ [](\A m \in Mentions : hpc[m] = "check" => ENABLED CheckFlag(m))

\* the run timeout of one mention has fired, its worker is still running, and
\* another mention has been rejected while a third is about to be checked
C3_Witness ==
    \E m, g, h \in Mentions :
        /\ hpc[g] = "shutdown" /\ RunActive(g)
        /\ hpc[m] = "rejected"
        /\ hpc[h] = "check"

-----------------------------------------------------------------------------
(* Properties of scoring, filtering and ranking (SpecPipe, SpecRank) *)

\* the list the run returned (None gives no events)
Returned == IF IsNone(ret) THEN <<>> ELSE ValueOf(ret)

ReturnedUrls == {Returned[p].url : p \in 1..Len(Returned)}

\* the record a returned event came from
SourceOf(e) == CHOOSE k \in 1..Len(extracted_list) : extracted_list[k].url = e.url

\* no JSON object can be parsed from the response, or the call raised
Unparsable(o) ==
    \/ o.kind = "api_raise"
    \/ o.kind = "text" /\ o.text.fenced.k # "json" /\ o.text.bare.k # "json"

\* C4: a record whose classification call raised or answered text without a
\* JSON object gets the verdict is_relevant = false, score = 0.0, and its
\* event is not in the final list.
C4_FailClosed ==
    \A k \in 1..Len(responses) :
        Unparsable(responses[k]) =>
            /\ relevance_list[k].is_relevant = FALSE
            /\ relevance_list[k].relevance_score = 0
            /\ extracted_list[k].url \notin ReturnedUrls
            /\ \A p \in 1..Len(events) : events[p].url # extracted_list[k].url

\* a finished run with a record that has a title, a date inside the window
\* and an online venue, whose classification answer was not parsable
C4_Witness ==
    /\ ppc = "returned"
    /\ \E k \in 1..Len(responses) :
          /\ Unparsable(responses[k])
          /\ responses[k].kind = "text"
          /\ extracted_list[k].title = In.ai
          /\ extracted_list[k].date_text = In.day_now
          /\ extracted_list[k].venue_text = In.online_upper
          /\ fates[k] = "relevance"

\* x comes before y in the ranking: higher score, or equal score and an
\* earlier start, a known start coming before an unknown one
Outranks(x, y) ==
    \/ x.relevance_score > y.relevance_score
    \/ /\ x.relevance_score = y.relevance_score
       /\ ~IsNone(x.start_at)
       /\ (IsNone(y.start_at) \/ ValueOf(x.start_at) < ValueOf(y.start_at))

\* C5: the returned list has at most 7 events, and when more than 7 events
\* pass the filters it has exactly 7 of them and no event left out outranks
\* an event kept (in particular none has a strictly higher score).
C5_Cap ==
    ppc = "returned" =>
        /\ Len(Returned) <= MaxEventsToReturn
        /\ \A p \in 1..Len(Returned) : \E q \in 1..Len(matched) : matched[q] = Returned[p]
        /\ Len(matched) > MaxEventsToReturn =>
              /\ Len(Returned) = MaxEventsToReturn
              /\ \A q \in 1..Len(matched) :
                    matched[q].url \notin ReturnedUrls =>
                        \A p \in 1..Len(Returned) :
                            /\ ~Outranks(matched[q], Returned[p])
                            /\ matched[q].relevance_score <= Returned[p].relevance_score

\* more than 7 events passed, and an event with a lower score than a kept one
\* was left out while the kept events have different scores
C5_Witness ==
    /\ ppc = "returned"
    /\ Len(matched) > MaxEventsToReturn
    /\ Len(Returned) = MaxEventsToReturn
    /\ Returned[1].relevance_score > Returned[MaxEventsToReturn].relevance_score
    /\ \E q \in 1..Len(matched) :
          /\ matched[q].url \notin ReturnedUrls
          /\ matched[q].relevance_score = Returned[MaxEventsToReturn].relevance_score

\* C6: the returned list is in descending order of score; events of equal
\* score are in ascending order of start time, those without a start time
\* behind those with one.
C6_Order ==
    ppc = "returned" =>
        \A p, q \in 1..Len(Returned) :
            p < q =>
                /\ Returned[p].relevance_score >= Returned[q].relevance_score
                /\ Returned[p].relevance_score = Returned[q].relevance_score =>
                      /\ IsNone(Returned[p].start_at) => IsNone(Returned[q].start_at)
                      /\ (~IsNone(Returned[p].start_at) /\ ~IsNone(Returned[q].start_at)) =>
                            ValueOf(Returned[p].start_at) <= ValueOf(Returned[q].start_at)

\* a returned list with two scores, two different known start times at one
\* score and an unknown start time at that score, found in another order
C6_Witness ==
    /\ ppc = "returned"
    /\ \E p, q, r \in 1..Len(Returned) :
          /\ p < q /\ q < r
          /\ Returned[p].relevance_score = Returned[q].relevance_score
          /\ ~IsNone(Returned[p].start_at) /\ ~IsNone(Returned[q].start_at)
          /\ ValueOf(Returned[p].start_at) < ValueOf(Returned[q].start_at)
          /\ SourceOf(Returned[q]) < SourceOf(Returned[p])
          /\ Returned[r].relevance_score < Returned[q].relevance_score
    /\ \E p, q \in 1..Len(Returned) :
          /\ p < q
          /\ Returned[p].relevance_score = Returned[q].relevance_score
          /\ ~IsNone(Returned[p].start_at) /\ IsNone(Returned[q].start_at)
          /\ SourceOf(Returned[q]) < SourceOf(Returned[p])

\* C7: every returned event has a verdict with is_relevant = true and a score
\* of at least 0.5, and carries that score.
C7_RelevantOnly ==
    \A p \in 1..Len(Returned) :
        LET v == relevance_list[SourceOf(Returned[p])]
        IN  /\ v.is_relevant = TRUE
            /\ v.relevance_score >= RelevanceThreshold
            /\ Returned[p].relevance_score = v.relevance_score

\* an event whose score is exactly the threshold was returned
C7_Witness ==
    /\ ppc = "returned"
    /\ \E p \in 1..Len(Returned) : Returned[p].relevance_score = RelevanceThreshold

\* C8: every returned event with a parsed start time starts inside
\* [now, now + days].
C8_InsideWindow ==
    \A p \in 1..Len(Returned) :
        ~IsNone(Returned[p].start_at) =>
            /\ now <= ValueOf(Returned[p].start_at)
            /\ ValueOf(Returned[p].start_at) <= now + DaysAhead * MinutesPerDay

\* an event that starts exactly now was returned
C8_Witness ==
    /\ ppc = "returned"
    /\ \E p \in 1..Len(Returned) :
          ~IsNone(Returned[p].start_at) /\ ValueOf(Returned[p].start_at) = now

\* the venue texts of the model that pass the geography filter under `terms`
PassesGeoByText(venue, terms) ==
    \/ venue \in {In.online_upper, In.virtual}
    \/ venue = In.oakland /\ terms = SfBayTerms

\* C9: a record without a parsable date that passes the relevance filter and
\* the geography filter is kept: it is among the matched events, with no
\* start time, and (the cap not being reached) it is returned.
C9_UnparsedDateKept ==
    ppc = "returned" =>
        \A k \in 1..Len(extracted_list) :
            ( /\ extracted_list[k].date_text = In.tbd
              /\ extracted_list[k].description_text = <<>>
              /\ extracted_list[k].title = In.ai
              /\ relevance_list[k].is_relevant = TRUE
              /\ relevance_list[k].relevance_score >= RelevanceThreshold
              /\ PassesGeoByText(extracted_list[k].venue_text, sf_terms) )
            => /\ fates[k] = "kept"
               /\ \E q \in 1..Len(matched) :
                     matched[q].url = extracted_list[k].url /\ IsNone(matched[q].start_at)
               /\ Len(matched) <= MaxEventsToReturn => extracted_list[k].url \in ReturnedUrls

\* an event without a start time was returned
C9_Witness ==
    /\ ppc = "returned"
    /\ \E p \in 1..Len(Returned) :
          /\ IsNone(Returned[p].start_at)
          /\ extracted_list[SourceOf(Returned[p])].date_text = In.tbd

\* C10: a record whose venue text contains "online" or "virtual" in any
\* letter case is never dropped by the geography filter, whatever the terms
\* (the empty tuple included); if it passes the other filters it is kept.
C10_OnlineExempt ==
    ppc = "returned" =>
        \A k \in 1..Len(extracted_list) :
            extracted_list[k].venue_text \in {In.online_upper, In.virtual} =>
                /\ fates[k] # "geo"
                /\ ( /\ relevance_list[k].is_relevant = TRUE
                     /\ relevance_list[k].relevance_score >= RelevanceThreshold
                     /\ extracted_list[k].date_text \in {In.tbd, In.day_now, In.day24} )
                   => fates[k] = "kept"

\* with no geography terms at all, an "ONLINE" event was returned
C10_Witness ==
    /\ ppc = "returned"
    /\ region = "sf_bay"
    /\ sf_terms = <<>>
    /\ \E p \in 1..Len(Returned) : Returned[p].venue.raw = In.online_upper

-----------------------------------------------------------------------------
(* Properties of the geography filter (SpecPipe) *)

\* the text contains an online/virtual marker, in any letter case
IsOnlineText(v) ==
    \/ StrContains(TxtOnlineMarker, StrLower(v))
    \/ StrContains(TxtVirtualMarker, StrLower(v))

\* the text contains one of the terms, letter case ignored on both sides
ContainsTermAnyCase(v, terms) ==
    \E k \in 1..Len(terms) : StrContains(StrLower(terms[k]), StrLower(v))

\* C11: under region "sf_bay" a record that reaches the geography filter and
\* whose venue text is not online passes it exactly when the venue text
\* contains one of the terms, the letter case of the text and of the term
\* being ignored.
C11_GeoTermAnyCase ==
    ppc = "returned" =>
        \A k \in 1..Len(extracted_list) :
            ( /\ region = "sf_bay"
              /\ fates[k] \in {"geo", "kept"}
              /\ ~IsOnlineText(extracted_list[k].venue_text) )
            => (fates[k] = "kept"
                    <=> ContainsTermAnyCase(extracted_list[k].venue_text, sf_terms))

-----------------------------------------------------------------------------
(* Properties of the assembled events (SpecPipe) *)

\* C12: every Event the loop assembles (for a record it does not skip, before
\* the filters) and every event it keeps has a non-empty title, and the title
\* is the URL when the extracted title is empty or only whitespace.
C12_TitleNeverEmpty ==
    ppc = "returned" =>
        /\ \A k \in 1..Len(extracted_list) :
              fates[k] \notin {"nourl", "stub"} =>
                  LET ev == MakeEvent(extracted_list[k], relevance_list[k])
                  IN  /\ ev.title # <<>>
                      /\ StrStrip(extracted_list[k].title) = <<>> =>
                             ev.title = extracted_list[k].url
        /\ \A q \in 1..Len(matched) :
              /\ matched[q].title # <<>>
              /\ StrStrip(extracted_list[SourceOf(matched[q])].title) = <<>> =>
                     matched[q].title = matched[q].url

\* an event whose extracted title was only whitespace was returned under its
\* URL as title
C12_Witness ==
    /\ ppc = "returned"
    /\ \E p \in 1..Len(Returned) :
          /\ extracted_list[SourceOf(Returned[p])].title = In.blank
          /\ Returned[p].title = Returned[p].url
          /\ Returned[p].title # <<>>

-----------------------------------------------------------------------------
(* Properties of _extract_event_details (SpecSched) *)

\* the fetch failed, the extraction call failed, or its answer has no JSON
\* object that can be parsed
ExtractionFailed(o) ==
    \/ o.kind \in {"neterr", "http_error", "timeout", "api_raise"}
    \/ o.kind = "text" /\ o.text.fenced.k # "json" /\ o.text.bare.k # "json"

\* the value _extract_event_details has settled for the p-th URL is a record
\* for that URL, and the stub when the fetch or the extraction failed
SettledRecordOk(p, r) ==
    /\ p \in DOMAIN ended
    /\ r.url = urls[p]
    /\ {"title", "date_text", "venue_text", "organizer_text",
        "description_text"} \subseteq DOMAIN r
    /\ ExtractionFailed(ended[p]) => r = StubRecord(urls[p])

\* C13: _extract_event_details never raises: however the fetch and the
\* extraction call of an item end, the item's task does not end with an
\* exception but settles and returns a record for the item's URL (a task
\* that ended with an exception met no outcome of the fetch or the call);
\* after a network error, an HTTP error status, a timeout, a failed
\* extraction call or an unparsable answer the record has all five text
\* fields empty.
C13_ExtractNeverRaises ==
    /\ \A p \in DOMAIN finished : SettledRecordOk(p, finished[p])
    /\ \A k \in 1..Len(tasks) :
          /\ tasks[k].st = "closing" => SettledRecordOk(i + k, tasks[k].res)
          /\ tasks[k].st = "exc" => (i + k) \notin DOMAIN ended
          /\ (i + k) \in DOMAIN ended =>
                /\ tasks[k].st \in {"closing", "done"}
                /\ tasks[k].st = "done" =>
                      /\ (i + k) \in DOMAIN finished
                      /\ finished[i + k] = tasks[k].res

\* one batch in which the first item met a timeout and the second an answer
\* with a broken JSON object, while an item of an earlier batch was extracted
C13_Witness ==
    /\ spc = "gather"
    /\ i = BatchSize
    /\ DOMAIN ended = {1, 2, 3}
    /\ DOMAIN finished = {1, 2, 3}
    /\ ended[1].kind = "text" /\ finished[1].title = In.ai
    /\ ended[2].kind = "timeout"
    /\ ended[3].kind = "text" /\ ended[3].text.bare.k = "badjson"
    /\ IsStub(finished[2]) /\ IsStub(finished[3])
    /\ Len(tasks) = 1 /\ tasks[1] = Done(finished[3])

-----------------------------------------------------------------------------
(* Properties of the discovery (SpecDisc) *)

\* C14: the returned URL list has no duplicates and is the first max_events
\* of the candidates in the order in which the passes first added them.
C14_FirstSeenOrder ==
    dpc = "returned" => event_urls = Prefix(Dedupe(added), max_events)

\* the item a URL of the result points to: its first path segment, without
\* the query string
ItemOf(url) ==
    SplitFirst(SplitFirst(StrReplace(url, TxtLuMaBase, <<>>), "/"), "?")

\* C15: normalising a URL of the result again gives the same URL, and the
\* result has at most one entry per item, whatever the scheme, the host
\* alias, the query string or the trailing slash of the links to it and
\* whichever pass found them.
C15_OneEntryPerItem ==
    dpc = "returned" =>
        /\ \A a \in 1..Len(event_urls) :
              ExtractUrlsFromText(event_urls[a]) = <<event_urls[a]>>
        /\ \A a, b \in 1..Len(event_urls) :
              ItemOf(event_urls[a]) = ItemOf(event_urls[b]) => a = b

\* C16: no exception leaves the discovery; when Playwright is missing, or
\* the browser, every listing page or the closing raised, the plain HTTP
\* fetch was attempted before the function returned; and when no HTML was
\* obtained the result is the empty list.
C16_DiscoveryNeverRaises ==
    /\ dpc # "raised"
    /\ (dpc \in {"extract", "returned"} /\ render # "ok") => http_tried
    /\ (dpc = "returned" /\ ~HtmlTruthy(html)) => event_urls = <<>>
    /\ (dpc = "returned" /\ event_urls # <<>>) => HtmlTruthy(html)

\* every listing page and the retry raised, the HTTP fetch failed as well,
\* and the discovery of a page with links returned the empty list
C16_Witness ==
    /\ dpc = "returned"
    /\ render = "all_failed"
    /\ http_tried
    /\ IsNone(html)
    /\ Len(listing) = 2
    /\ event_urls = <<>>

-----------------------------------------------------------------------------
(* Properties of a run as a whole (SpecPipe) *)

\* C17: a run with no candidate, or in which no record survives the filters,
\* returns the empty list, main.py then writes empty files and does not
\* fail.
C17_ZeroResultRun ==
    /\ (ppc \in {"returned", "exported", "failed"} /\ matched = <<>>)
           => ret = Some(<<>>)
    /\ matched = <<>> => ppc # "failed"
    /\ (ppc = "exported" /\ matched = <<>>) => written = Some(<<>>)

\* C18: whatever the records, the date texts (timezone-qualified ones included)
\* and the classifier responses (score missing, not a number, out of range),
\* the call completes without raising: every record's iteration ends, and the
\* ranked list is produced.
C18_RunNeverRaises ==
    ppc \notin {"start", "checked"} =>
        /\ ppc # "raised"
        /\ Len(fates) = Len(extracted_list)
        /\ \A k \in 1..Len(fates) : fates[k] # "raise"

\* C19: every verdict of the classifier, and so the relevance_score of every
\* returned Event, carries a score between 0 and 1 (0 and 10 tenths).
C19_ScoreInUnitInterval ==
    /\ \A k \in 1..Len(relevance_list) :
          IsNumber(relevance_list[k].relevance_score) =>
              /\ 0 <= relevance_list[k].relevance_score
              /\ relevance_list[k].relevance_score <= 10
    /\ \A k \in 1..Len(events) :
          0 <= events[k].relevance_score /\ events[k].relevance_score <= 10

-----------------------------------------------------------------------------
(* Properties of the heuristic scorer (SpecScore) *)

\* C20: for a fixed record and keyword profile, score_relevance stores the
\* same relevance_score and the same matched_keywords sequence on every
\* call, whatever the iteration order of the keyword set and whatever calls
\* came before, on this record or on another.
C20_HeuristicDeterministic ==
    \A a, b \in 1..Len(sc_log) :
        sc_events[sc_log[a].idx].title = sc_events[sc_log[b].idx].title
        /\ Blob(sc_events[sc_log[a].idx]) = Blob(sc_events[sc_log[b].idx])
        => /\ sc_log[a].score = sc_log[b].score
           /\ sc_log[a].hits = sc_log[b].hits

\* a record has been scored, then another record, then the first one again
\* with the set iterated in another order, and two keywords match it
C20_Witness ==
    /\ Len(sc_log) = 3
    /\ sc_log[1].idx = sc_log[3].idx
    /\ sc_log[2].idx # sc_log[1].idx
    /\ sc_events[sc_log[2].idx].title # sc_events[sc_log[1].idx].title
    /\ sc_log[1].order # sc_log[3].order
    /\ Len(sc_log[3].hits) >= 2
    /\ sc_log[3].score > 0

-----------------------------------------------------------------------------
(* Properties of the mention handler and of the run's entry (SpecBot) *)

\* C21: when the profile cannot be built (the fetch of the reference site
\* fails), the run still proceeds: every accepted mention whose handler has
\* finished has had its scrape started.
C21_RunProceedsWithoutProfile ==
    \A m \in Mentions :
        (hpc[m] = "done") => started[m] >= 1

-----------------------------------------------------------------------------
(* Properties of the order of the stages (SpecPipe) *)

\* C22: the classifier is called only for records that survived the recency
\* and the geography filter: every record for which a classification call
\* has been made is neither outside the window nor outside the region.
C22_ClassifyOnlySurvivors ==
    \A k \in 1..Len(responses) :
        /\ ~DateFilterDrops(EventDate(extracted_list[k]), DaysAhead, now)
        /\ ~GeoFilterDrops(region, extracted_list[k].venue_text, sf_terms)

-----------------------------------------------------------------------------
(* Deadlines and concurrency of the batch scheduler (SpecSched) *)

\* C23: every step of an item's extraction is bounded by a deadline: as long
\* as an item of the batch being gathered has not ended, the batch timeout
\* can still expire and end the batch.
C23_DeadlineAlwaysArmed ==
    (spc = "gather"
        /\ \E k \in 1..Len(tasks) : tasks[k].st \in {"pending", "calling", "closing"})
        => ENABLED BatchTimeout

\* C24: at most batch_size extractions are in flight, all of them belong to
\* the batch being gathered, and none is in flight between two batches: a
\* batch starts only once every extraction of the batch before it has ended
\* or has been cancelled by the batch timeout.
C24_OneBatchInFlight ==
    /\ Cardinality(inflight) <= BatchSize
    /\ \A p \in inflight : i < p /\ p <= i + BatchSize
    /\ spc # "gather" => inflight = {}

\* the first batch timed out after its first item had returned a real record,
\* and the second batch is in flight
C24_Witness ==
    /\ spc = "gather"
    /\ i = BatchSize
    /\ inflight # {}
    /\ 1 \in DOMAIN finished
    /\ 2 \notin DOMAIN finished
    /\ all_results[1] # finished[1]

-----------------------------------------------------------------------------
(* Properties of the discovery passes (SpecDisc) *)

\* C25: every pass applies the same candidate-validity filter: the identifier
\* of every URL of the discovery result passes the checks of
\* _extract_urls_from_text (not an excluded segment, not a snake_case or
\* camelCase key, no usr-/cal-/org- prefix, at least 4 characters, not a short
\* all-lowercase string without the evt- prefix).
C25_SharedValidityFilter ==
    dpc = "returned" =>
        \A a \in 1..Len(event_urls) : ValidRegexId(ItemOf(event_urls[a]))

-----------------------------------------------------------------------------
(* Properties of the heuristic score (SpecScore) *)

\* C26: a keyword matched in the title counts 1.5 times a keyword matched
\* only in the body: with a body-only hit worth 1 (10 tenths), the score of
\* every call is 10 per body-only hit plus 15 per title hit.
C26_TitleWeight ==
    \A a \in 1..Len(sc_log) :
        LET e == sc_events[sc_log[a].idx]
            title_hits == Len(KeywordHits(e.title, sc_log[a].order))
            body_only == Len(sc_log[a].hits) - title_hits
        IN  sc_log[a].score = 10 * body_only + 15 * title_hits

-----------------------------------------------------------------------------
(* Properties of the in-progress flag (SpecBot) *)

\* C27: once an accepted run has ended -- its result or its exception was
\* taken, or its timeout has fired and the handler has said so and returned --
\* the flag is false again, so that a later mention is accepted: the flag is
\* set only while some accepted handler's run has not ended.
C27_FlagResetWhenRunEnds ==
    is_scraping => \E m \in Mentions : hpc[m] \in {"accepted", "waiting"}

-----------------------------------------------------------------------------
(* Properties of the record's URL (SpecSched) *)

\* C28: the record _extract_event_details returns for the input URL u has
\* url = u, also when the answer of the extraction call has a "url" field of
\* its own or fields the prompt did not ask for; so has the record in the
\* scheduler's output, and so has the Event built from it.
C28_UrlIsInputUrl ==
    \A p \in DOMAIN finished :
        /\ finished[p].url = urls[p]
        /\ p <= Len(all_results) =>
              /\ all_results[p].url = urls[p]
              /\ MakeEvent(all_results[p], Verdict(TRUE, 8)).url = urls[p]

\* an item whose answer carried another URL and an extra field is in the
\* output: the extra field and the title were taken over, the URL was not
C28_Witness ==
    \E p \in DOMAIN finished :
        /\ p <= Len(all_results)
        /\ p \in DOMAIN ended
        /\ ended[p].kind = "text"
        /\ Truthy(ExtractJsonFromText(ended[p].text))
        /\ ExtractJsonFromText(ended[p].text).obj = WithUrlAndExtra
        /\ WithUrlAndExtra.url # urls[p]
        /\ all_results[p] = finished[p]
        /\ all_results[p].note = In.ai
        /\ all_results[p].title = In.ai

-----------------------------------------------------------------------------
(* Properties of stub records (SpecPipe) *)

\* C29: a record without title and without description (the stub of a failed
\* extraction) is never kept by the loop, and its URL is in no list the run
\* holds or returns, whatever verdict the classifier gave for it.
C29_StubNeverReturned ==
    \A k \in 1..Len(extracted_list) :
        (/\ StrStrip(extracted_list[k].title) = <<>>
         /\ StrStrip(extracted_list[k].description_text) = <<>>) =>
            /\ k <= Len(fates) => fates[k] # "kept"
            /\ \A p \in 1..Len(events) : events[p].url # extracted_list[k].url
            /\ extracted_list[k].url \notin ReturnedUrls

\* a returned run in which the classifier called a record without title and
\* description relevant with score 0.8, and neither the window nor the
\* region would have dropped the record
C29_Witness ==
    /\ ppc = "returned"
    /\ \E k \in 1..Len(extracted_list) :
          /\ extracted_list[k].title = <<>>
          /\ extracted_list[k].description_text = <<>>
          /\ relevance_list[k].is_relevant
          /\ relevance_list[k].relevance_score = 8
          /\ ~DateFilterDrops(EventDate(extracted_list[k]), DaysAhead, now)
          /\ ~GeoFilterDrops(region, extracted_list[k].venue_text, sf_terms)
          /\ fates[k] = "stub"
          /\ IsNone(ret)

-----------------------------------------------------------------------------
(* Properties of the order of the filters (SpecPipe) *)

\* one iteration of the loop with the three filters taken in the order
\* recency, geography, relevance
FateRecencyFirst(extracted, relevance, reg, terms, days, nowv) ==
    IF extracted.url = <<>> THEN "nourl"
    ELSE IF StrStrip(extracted.title) = <<>>
            /\ StrStrip(extracted.description_text) = <<>> THEN "stub"
    ELSE IF FormatScoreRaises(DictGet(relevance, "relevance_score", 0)) THEN "raise"
    ELSE IF IsWithinDaysRaises(EventDate(extracted)) THEN "raise"
    ELSE IF DateFilterDrops(EventDate(extracted), days, nowv) THEN "date"
    ELSE IF GeoFilterDrops(reg, extracted.venue_text, terms) THEN "geo"
    ELSE IF ~PassesRelevance(DictGet(relevance, "is_relevant", FALSE),
                             DictGet(relevance, "relevance_score", 0))
         THEN "relevance"
    ELSE "kept"

\* the fates of the records that loop reaches
FatesRecencyFirst ==
    LET n == IF Len(extracted_list) <= Len(relevance_list)
             THEN Len(extracted_list) ELSE Len(relevance_list)
        all == [k \in 1..n |-> FateRecencyFirst(extracted_list[k], relevance_list[k],
                                                region, sf_terms, DaysAhead, now)]
        bad == {k \in 1..n : all[k] = "raise"}
    IN  IF bad = {} THEN all
        ELSE SubSeq(all, 1, CHOOSE k \in bad : \A m \in bad : k <= m)

\* how the run ends with that loop: it raises, or it returns the ranked and
\* capped list (None for no event)
ResultRecencyFirst ==
    LET fs == FatesRecencyFirst
        evs == LimitEvents(SortEvents(Matched(extracted_list, relevance_list, fs)))
    IN  IF LoopRaised(fs) THEN [raised |-> TRUE, ret |-> NoneVal]
        ELSE [raised |-> FALSE, ret |-> IF evs # <<>> THEN Some(evs) ELSE NoneVal]

\* C30: for every list of records and verdicts the run ends the same way,
\* with the same ranked and capped list, whether the loop applies relevance,
\* recency, geography (as the code does) or recency, geography, relevance.
C30_FilterOrderIndependent ==
    ppc \in {"returned", "raised", "exported", "failed"} =>
        /\ LoopRaised(fates) = ResultRecencyFirst.raised
        /\ ~LoopRaised(fates) => ResultRecencyFirst.ret = ret

====
